---- MODULE Spec2Model ----
(***************************************************************************)
(* The intcode machine of src/src/intcode.rs as a state machine.           *)
(*                                                                         *)
(* The machine's fields are the variables memory, pc, halted, input,       *)
(* output, relative_base and constant_input.  Every public operation of    *)
(* Machine is one action.  The private helpers (get_data, get_param_mode,  *)
(* get_arg, set_return, bin_op, jump_op) and step, run and next_output are *)
(* operators over a machine record, computed the way the code computes     *)
(* them, so that an action is the whole call.                              *)
(*                                                                         *)
(* The arcade of src/src/day13.rs is this machine and the variable screen; *)
(* for a machine that is not part of an arcade the screen stays as         *)
(* Screen::default() made it.                                              *)
(*                                                                         *)
(* The earlier machine of src/src/day2.rs is the variable day2, with the   *)
(* result of its last call in day2_result; it is run side by side with the *)
(* machine in SpecDay2 and is left as Machine::new made it elsewhere.      *)
(*                                                                         *)
(* overflow_checks is the build: whether i64 arithmetic that overflows     *)
(* panics (rustc's overflow checks, on in the dev profile) or wraps (off   *)
(* in the release profile).  It is chosen once and never changes.          *)
(*                                                                         *)
(* The painting robot of src/src/day11.rs is this machine and the          *)
(* variables robot (its direction and position) and hull; received counts  *)
(* the outputs the robot was handed in its last call of next_instruction.  *)
(* The amplifier circuit of src/src/day7.rs is the variable circuit: the   *)
(* five machines, the signal and the place run_circuit has reached in its  *)
(* loops; amp_out records what each amplifier emitted last.  Outside their *)
(* own specifications these stay as they start.                            *)
(*                                                                         *)
(* History variables (prev, prevScreen, lastOp, lastArgs, result, program, *)
(* pushed, stored, returned) record what the caller has done and seen;     *)
(* they never influence the machine.                                       *)
(*                                                                         *)
(* In every specification but SpecWide the bounds below keep the values    *)
(* far below the limits of i64, so that no arithmetic overflows there.     *)
(***************************************************************************)
EXTENDS Integers, Sequences, FiniteSets, TLC

VARIABLES memory, pc, halted, input, output, relative_base, constant_input,
          prev, lastOp, lastArgs, result, program, pushed, stored, returned,
          screen, prevScreen, day2, day2_result, overflow_checks,
          robot, hull, received, circuit, amp_out

vars == <<memory, pc, halted, input, output, relative_base, constant_input,
          prev, lastOp, lastArgs, result, program, pushed, stored, returned,
          screen, prevScreen, day2, day2_result, overflow_checks,
          robot, hull, received, circuit, amp_out>>

\* the variables of the puzzles' own state
puzzles == <<robot, hull, received, circuit, amp_out>>

----------------------------------------------------------------------------
(* Bounds of the model. *)

\* most values a caller pushes with push_input
MaxPush == 2
\* longest output queue a step may build
MaxOut == 2
\* longest memory a write may grow to
MaxMem == 13
\* largest magnitude of a memory value
MaxVal == 23000
\* the largest word, in the place of i64::MAX
MaxWord == 536870911
\* largest pc and largest magnitude of relative_base
MaxPc == 12
MaxBase == 4
\* most values the caller is handed by pop_output, get_output and next_output
MaxReturned == 2
\* most steps one call of run or next_output is followed for
MaxRunSteps == 6
\* most turns of its loop one call of paint_hull is followed for
MaxTurns == 3
\* largest num_blocks a screen is followed to
MaxBlocks == 3
\* most rounds of the amplifiers one call of run_circuit is followed for
MaxRounds == 4

----------------------------------------------------------------------------
(* Option<i64>: None, or Some(v). *)

None == [some |-> FALSE, v |-> 0]
Some(x) == [some |-> TRUE, v |-> x]

(* Result values: Ok(()), Ok(Some(v)), and the variants of enum Error. *)

Ok == [kind |-> "Ok", val |-> 0]
OkSome(x) == [kind |-> "Some", val |-> x]
OkNone == [kind |-> "None", val |-> 0]
Err(k, x) == [kind |-> k, val |-> x]

ErrorKinds == {"InvalidInstruction", "InvalidAddress", "Halted",
               "InvalidParameterMode", "NoInput", "InvalidArgument"}

IsErr(r) == r.kind \in ErrorKinds

(* i64 division and remainder truncate toward zero. *)

Quot(a, n) == IF a >= 0 THEN a \div n ELSE -((-a) \div n)
Rem(a, n) == IF a >= 0 THEN a % n ELSE -((-a) % n)

(* The i64 word.  TLC's own integers are 32 bits wide, so the word is     *)
(* modelled 30 bits wide: MaxWord stands where i64::MAX stands, MinWord    *)
(* where i64::MIN stands, and the arithmetic is two's complement as i64's  *)
(* is.  A sum of two words is inside TLC's integers; a product is not, so  *)
(* it is tested by division and reduced by doubling.                       *)

MinWord == -MaxWord - 1
Modulus == 2 * (MaxWord + 1)
Fits(v) == v >= MinWord /\ v <= MaxWord

Abs(v) == IF v < 0 THEN -v ELSE v

\* the exact product of two words is a word
MulFits(a, b) ==
    \/ a = 0
    \/ b = 0
    \/ (a > 0) = (b > 0) /\ Abs(a) <= MaxWord \div Abs(b)
    \/ (a > 0) # (b > 0) /\ Abs(a) <= (MaxWord + 1) \div Abs(b)

\* two's complement: the word congruent to u
ToSigned(u) == IF u % Modulus > MaxWord THEN (u % Modulus) - Modulus
               ELSE u % Modulus

\* x + y modulo Modulus, for x and y in 0..Modulus-1
AddMod(x, y) == IF x >= Modulus - y THEN x - (Modulus - y) ELSE x + y

\* x * y modulo Modulus, for x in 0..Modulus-1 and y >= 0
RECURSIVE MulMod(_, _)
MulMod(x, y) ==
    IF y = 0 THEN 0
    ELSE CHOOSE r \in { AddMod(AddMod(h, h), IF y % 2 = 1 THEN x ELSE 0)
                        : h \in {MulMod(x, y \div 2)} } : TRUE

\* a + b and a * b as the release profile computes them
wrapping_add(a, b) == ToSigned(a + b)
wrapping_mul(a, b) ==
    IF MulFits(a, b) THEN a * b ELSE ToSigned(MulMod(a % Modulus, b % Modulus))

\* the process ended in a panic
Panic == [kind |-> "Panic", val |-> 0]

(* `x as u8` keeps the low eight bits. *)
AsU8(x) == x % 256

----------------------------------------------------------------------------
(* The machine as a record, and the helpers of impl Machine. *)

Machine == [memory |-> memory, pc |-> pc, halted |-> halted, input |-> input,
            output |-> output, relative_base |-> relative_base,
            constant_input |-> constant_input]

\* mutant: a machine is made with a constant input of 0
new_with_constant(prog) ==
    [memory |-> prog, pc |-> 0, halted |-> FALSE, input |-> <<>>,
     output |-> <<>>, relative_base |-> 0, constant_input |-> Some(0)]

\* Machine::new
new(prog) == [memory |-> prog, pc |-> 0, halted |-> FALSE, input |-> <<>>,
              output |-> <<>>, relative_base |-> 0, constant_input |-> None]

\* mutant: beyond the end of memory the last cell is read
get_data_last(mem, address) ==
    IF address < Len(mem) THEN mem[address + 1]
    ELSE IF mem = <<>> THEN 0 ELSE mem[Len(mem)]

\* address is a usize: never negative.  Cell a of the Vec is mem[a + 1].
get_data(mem, address) ==
    IF address < Len(mem) THEN mem[address + 1] ELSE 0

\* mutant: the new cells are filled with the value stored
set_data_fills(mem, address, value) ==
    LET resized == IF Len(mem) < address + 1
                   THEN mem \o [i \in 1..(address + 1 - Len(mem)) |-> value]
                   ELSE mem
    IN [resized EXCEPT ![address + 1] = value]

\* mutant: memory is resized to end at the cell stored
set_data_truncates(mem, address, value) ==
    LET resized == IF Len(mem) < address + 1
                   THEN mem \o [i \in 1..(address + 1 - Len(mem)) |-> 0]
                   ELSE SubSeq(mem, 1, address + 1)
    IN [resized EXCEPT ![address + 1] = value]

\* set_data: resize with zeros when address + 1 > len, then store

set_data(mem, address, value) ==
    LET resized == IF Len(mem) < address + 1
                   THEN mem \o [i \in 1..(address + 1 - Len(mem)) |-> 0]
                   ELSE mem
    IN [resized EXCEPT ![address + 1] = value]

\* ParameterMode::try_from(u8)
ParameterMode_try_from(value) ==
    CASE value = 0 -> [kind |-> "Ok", mode |-> "Position", val |-> 0]
      [] value = 1 -> [kind |-> "Ok", mode |-> "Immediate", val |-> 0]
      [] value = 2 -> [kind |-> "Ok", mode |-> "Relative", val |-> 0]
      [] OTHER -> [kind |-> "InvalidParameterMode", mode |-> "", val |-> value]

RECURSIVE DivTen(_, _)
DivTen(opcode, n) == IF n = 0 THEN opcode ELSE DivTen(Quot(opcode, 10), n - 1)

get_param_mode(opcode, arg) ==
    ParameterMode_try_from(AsU8(Rem(DivTen(Quot(opcode, 100), arg), 10)))

\* mutant: relative mode checks the raw parameter, not the address
get_arg_raw_check(m, arg_num, opcode) ==
    LET arg == get_data(m.memory, m.pc + 1 + arg_num)
        pm == get_param_mode(opcode, arg_num)
    IN IF pm.kind # "Ok" THEN Err(pm.kind, pm.val)
       ELSE CASE pm.mode = "Position" ->
                    IF arg < 0 THEN Err("InvalidAddress", arg)
                    ELSE [kind |-> "Ok", val |-> get_data(m.memory, arg)]
              [] pm.mode = "Immediate" -> [kind |-> "Ok", val |-> arg]
              [] pm.mode = "Relative" ->
                    LET address == arg + m.relative_base
                    IN IF arg < 0 \/ address < 0 THEN Err("InvalidAddress", arg)
                       ELSE [kind |-> "Ok", val |-> get_data(m.memory, address)]

\* mutant: a relative operand is read as a position
get_arg_ignores_base(m, arg_num, opcode) ==
    LET arg == get_data(m.memory, m.pc + 1 + arg_num)
        pm == get_param_mode(opcode, arg_num)
    IN IF pm.kind # "Ok" THEN Err(pm.kind, pm.val)
       ELSE IF pm.mode = "Immediate" THEN [kind |-> "Ok", val |-> arg]
       ELSE IF arg < 0 THEN Err("InvalidAddress", arg)
       ELSE [kind |-> "Ok", val |-> get_data(m.memory, arg)]

\* mutant: an immediate operand is read as a position
get_arg_all_positions(m, arg_num, opcode) ==
    LET arg == get_data(m.memory, m.pc + 1 + arg_num)
        pm == get_param_mode(opcode, arg_num)
    IN IF pm.kind # "Ok" THEN Err(pm.kind, pm.val)
       ELSE LET address == IF pm.mode = "Relative"
                           THEN arg + m.relative_base ELSE arg
            IN IF address < 0 THEN Err("InvalidAddress", address)
               ELSE [kind |-> "Ok", val |-> get_data(m.memory, address)]

\* i64 -> usize try_into fails exactly on a negative value; the relative
\* address is the i64 sum arg + self.relative_base
get_arg(m, arg_num, opcode) ==
    LET arg == get_data(m.memory, m.pc + 1 + arg_num)
        pm == get_param_mode(opcode, arg_num)
    IN IF pm.kind # "Ok" THEN Err(pm.kind, pm.val)
       ELSE CASE pm.mode = "Position" ->
                    IF arg < 0 THEN Err("InvalidAddress", arg)
                    ELSE [kind |-> "Ok", val |-> get_data(m.memory, arg)]
              [] pm.mode = "Immediate" -> [kind |-> "Ok", val |-> arg]
              [] pm.mode = "Relative" ->
                    LET address == wrapping_add(arg, m.relative_base)
                    IN IF overflow_checks /\ ~Fits(arg + m.relative_base)
                       THEN Panic
                       ELSE IF address < 0 THEN Err("InvalidAddress", address)
                       ELSE [kind |-> "Ok", val |-> get_data(m.memory, address)]

\* mutant: an immediate write target is taken as a position
set_return_immediate(m, arg_num, value, opcode) ==
    LET arg == get_data(m.memory, m.pc + 1 + arg_num)
        pm == get_param_mode(opcode, arg_num)
    IN IF pm.kind # "Ok" THEN [m |-> m, res |-> Err(pm.kind, pm.val)]
       ELSE LET address == IF pm.mode = "Relative" THEN arg + m.relative_base
                           ELSE arg
            IN IF address < 0
               THEN [m |-> m, res |-> Err("InvalidAddress", address)]
               ELSE [m |-> [m EXCEPT !.memory = set_data(m.memory, address, value)],
                     res |-> Ok]

\* mutant: a relative write target is taken as a position
set_return_ignores_base(m, arg_num, value, opcode) ==
    LET arg == get_data(m.memory, m.pc + 1 + arg_num)
        pm == get_param_mode(opcode, arg_num)
    IN IF pm.kind # "Ok" THEN [m |-> m, res |-> Err(pm.kind, pm.val)]
       ELSE IF pm.mode = "Immediate"
            THEN [m |-> m, res |-> Err("InvalidInstruction", opcode)]
       ELSE IF arg < 0
            THEN [m |-> m, res |-> Err("InvalidAddress", arg)]
            ELSE [m |-> [m EXCEPT !.memory = set_data(m.memory, arg, value)],
                  res |-> Ok]

\* returns the machine after the call and the call's result
set_return(m, arg_num, value, opcode) ==
    LET arg == get_data(m.memory, m.pc + 1 + arg_num)
        pm == get_param_mode(opcode, arg_num)
    IN IF pm.kind # "Ok" THEN [m |-> m, res |-> Err(pm.kind, pm.val)]
       ELSE IF pm.mode = "Immediate"
            THEN [m |-> m, res |-> Err("InvalidInstruction", opcode)]
       ELSE IF /\ pm.mode = "Relative" /\ overflow_checks
               /\ ~Fits(arg + m.relative_base)
            THEN [m |-> m, res |-> Panic]
       ELSE LET address == IF pm.mode = "Position" THEN arg
                           ELSE wrapping_add(arg, m.relative_base)
            IN IF address < 0
               THEN [m |-> m, res |-> Err("InvalidAddress", address)]
               ELSE [m |-> [m EXCEPT !.memory = set_data(m.memory, address, value)],
                     res |-> Ok]

\* mutant: opcode 8 compares with < as opcode 7 does
closure_equals_as_less(code, a, b) ==
    CASE code = 1 -> a + b
      [] code = 2 -> a * b
      [] code = 7 -> IF a < b THEN 1 ELSE 0
      [] code = 8 -> IF a < b THEN 1 ELSE 0

\* mutant: opcode 2 adds as opcode 1 does
closure_multiply_adds(code, a, b) ==
    CASE code = 1 -> a + b
      [] code = 2 -> a + b
      [] code = 7 -> IF a < b THEN 1 ELSE 0
      [] code = 8 -> IF a = b THEN 1 ELSE 0

\* the closure's i64 arithmetic overflows
overflows(code, a, b) ==
    \/ code = 1 /\ ~Fits(a + b)
    \/ code = 2 /\ ~MulFits(a, b)

\* the closures step passes to bin_op, by the opcode that selects them;
\* the value is the one returned when the closure returns
closure(code, a, b) ==
    CASE code = 1 -> wrapping_add(a, b)
      [] code = 2 -> wrapping_mul(a, b)
      [] code = 7 -> IF a < b THEN 1 ELSE 0
      [] code = 8 -> IF a = b THEN 1 ELSE 0

\* mutant: pc is advanced past the operands only, not past the target
bin_op_short(m, code, opcode) ==
    LET a == get_arg(m, 0, opcode)
        b == get_arg(m, 1, opcode)
    IN IF a.kind # "Ok" THEN [m |-> m, res |-> a]
       ELSE IF b.kind # "Ok" THEN [m |-> m, res |-> b]
       ELSE LET w == set_return(m, 2, closure(code, a.val, b.val), opcode)
            IN IF w.res.kind # "Ok" THEN w
               ELSE [m |-> [w.m EXCEPT !.pc = @ + 3], res |-> Ok]

\* both operands are read before the target is resolved and written
bin_op(m, code, opcode) ==
    LET a == get_arg(m, 0, opcode)
        b == get_arg(m, 1, opcode)
    IN IF a.kind # "Ok" THEN [m |-> m, res |-> a]
       ELSE IF b.kind # "Ok" THEN [m |-> m, res |-> b]
       ELSE IF overflow_checks /\ overflows(code, a.val, b.val)
            THEN [m |-> m, res |-> Panic]
       ELSE LET w == set_return(m, 2, closure(code, a.val, b.val), opcode)
            IN IF w.res.kind # "Ok" THEN w
               ELSE [m |-> [w.m EXCEPT !.pc = @ + 4], res |-> Ok]

\* mutant: a negative jump target is taken as address 0
jump_op_wraps(m, cmp, opcode) ==
    LET a == get_arg(m, 0, opcode)
    IN IF a.kind # "Ok" THEN [m |-> m, res |-> a]
       ELSE IF (a.val # 0) = cmp
            THEN LET t == get_arg(m, 1, opcode)
                 IN IF t.kind # "Ok" THEN [m |-> m, res |-> t]
                    ELSE IF t.val < 0
                         THEN [m |-> [m EXCEPT !.pc = 0], res |-> Ok]
                         ELSE [m |-> [m EXCEPT !.pc = t.val], res |-> Ok]
            ELSE [m |-> [m EXCEPT !.pc = @ + 3], res |-> Ok]

\* jump_op: the target is read only when the jump is taken

jump_op(m, cmp, opcode) ==
    LET a == get_arg(m, 0, opcode)
    IN IF a.kind # "Ok" THEN [m |-> m, res |-> a]
       ELSE IF (a.val # 0) = cmp
            THEN LET t == get_arg(m, 1, opcode)
                 IN IF t.kind # "Ok" THEN [m |-> m, res |-> t]
                    ELSE IF t.val < 0
                         THEN [m |-> m, res |-> Err("InvalidArgument", t.val)]
                         ELSE [m |-> [m EXCEPT !.pc = t.val], res |-> Ok]
            ELSE [m |-> [m EXCEPT !.pc = @ + 3], res |-> Ok]

pop_front(q) == IF q = <<>> THEN <<>> ELSE Tail(q)

\* mutant: the instruction is passed over when there is no input
input_op_skips(m, opcode) ==
    IF m.constant_input.some
    THEN LET w == set_return(m, 0, m.constant_input.v, opcode)
         IN IF w.res.kind # "Ok" THEN w
            ELSE [m |-> [w.m EXCEPT !.pc = @ + 2], res |-> Ok]
    ELSE IF m.input = <<>>
         THEN [m |-> [m EXCEPT !.pc = @ + 2], res |-> Err("NoInput", 0)]
    ELSE LET popped == [m EXCEPT !.input = pop_front(m.input)]
             w == set_return(popped, 0, Head(m.input), opcode)
         IN IF w.res.kind # "Ok" THEN w
            ELSE [m |-> [w.m EXCEPT !.pc = @ + 2], res |-> Ok]

\* mutant: the queue is tried before the override
input_op_queue_first(m, opcode) ==
    IF m.input # <<>>
    THEN LET popped == [m EXCEPT !.input = pop_front(m.input)]
             w == set_return(popped, 0, Head(m.input), opcode)
         IN IF w.res.kind # "Ok" THEN w
            ELSE [m |-> [w.m EXCEPT !.pc = @ + 2], res |-> Ok]
    ELSE IF m.constant_input.some
    THEN LET w == set_return(m, 0, m.constant_input.v, opcode)
         IN IF w.res.kind # "Ok" THEN w
            ELSE [m |-> [w.m EXCEPT !.pc = @ + 2], res |-> Ok]
    ELSE [m |-> m, res |-> Err("NoInput", 0)]

\* mutant: the value pushed last is read first
input_op_lifo(m, opcode) ==
    IF m.constant_input.some
    THEN LET w == set_return(m, 0, m.constant_input.v, opcode)
         IN IF w.res.kind # "Ok" THEN w
            ELSE [m |-> [w.m EXCEPT !.pc = @ + 2], res |-> Ok]
    ELSE IF m.input = <<>> THEN [m |-> m, res |-> Err("NoInput", 0)]
    ELSE LET popped == [m EXCEPT !.input = SubSeq(@, 1, Len(@) - 1)]
             w == set_return(popped, 0, m.input[Len(m.input)], opcode)
         IN IF w.res.kind # "Ok" THEN w
            ELSE [m |-> [w.m EXCEPT !.pc = @ + 2], res |-> Ok]

\* opcode 3: the override first, else the front of the queue, else NoInput;
\* the queue is popped before the write target is resolved
input_op(m, opcode) ==
    IF m.constant_input.some
    THEN LET w == set_return(m, 0, m.constant_input.v, opcode)
         IN IF w.res.kind # "Ok" THEN w
            ELSE [m |-> [w.m EXCEPT !.pc = @ + 2], res |-> Ok]
    ELSE IF m.input = <<>> THEN [m |-> m, res |-> Err("NoInput", 0)]
    ELSE LET popped == [m EXCEPT !.input = pop_front(m.input)]
             w == set_return(popped, 0, Head(m.input), opcode)
         IN IF w.res.kind # "Ok" THEN w
            ELSE [m |-> [w.m EXCEPT !.pc = @ + 2], res |-> Ok]

\* mutant: the value emitted replaces the output queue
output_op_replaces(m, opcode) ==
    LET a == get_arg(m, 0, opcode)
    IN IF a.kind # "Ok" THEN [m |-> m, res |-> a]
       ELSE [m |-> [m EXCEPT !.output = <<a.val>>, !.pc = @ + 2],
             res |-> Ok]

\* opcode 4: output.push_back(get_arg(0))

output_op(m, opcode) ==
    LET a == get_arg(m, 0, opcode)
    IN IF a.kind # "Ok" THEN [m |-> m, res |-> a]
       ELSE [m |-> [m EXCEPT !.output = Append(@, a.val), !.pc = @ + 2],
             res |-> Ok]

\* mutant: the operand replaces relative_base
adjust_op_assigns(m, opcode) ==
    LET a == get_arg(m, 0, opcode)
    IN IF a.kind # "Ok" THEN [m |-> m, res |-> a]
       ELSE [m |-> [m EXCEPT !.relative_base = a.val, !.pc = @ + 2],
             res |-> Ok]

\* opcode 9: relative_base += get_arg(0)

adjust_op(m, opcode) ==
    LET a == get_arg(m, 0, opcode)
    IN IF a.kind # "Ok" THEN [m |-> m, res |-> a]
       ELSE IF overflow_checks /\ ~Fits(m.relative_base + a.val)
            THEN [m |-> m, res |-> Panic]
       ELSE [m |-> [m EXCEPT !.relative_base = wrapping_add(@, a.val),
                             !.pc = @ + 2],
             res |-> Ok]

halt_op(m) == [m |-> [m EXCEPT !.halted = TRUE], res |-> Ok]

\* mutant: an unknown opcode stops the machine for good
invalid_op_halts(m, data) ==
    [m |-> [m EXCEPT !.halted = TRUE], res |-> Err("InvalidInstruction", data)]

\* mutant: the error carries the whole instruction word
invalid_op_word(m, data) ==
    [m |-> m, res |-> Err("InvalidInstruction", get_data(m.memory, m.pc))]

\* data => return Err(Error::InvalidInstruction(data))
invalid_op(m, data) == [m |-> m, res |-> Err("InvalidInstruction", data)]

\* the match of step on opcode % 100
dispatch(m) ==
    LET opcode == get_data(m.memory, m.pc)
        code == Rem(opcode, 100)
    IN CASE code = 1 -> bin_op(m, 1, opcode)
         [] code = 2 -> bin_op(m, 2, opcode)
         [] code = 3 -> input_op(m, opcode)
         [] code = 4 -> output_op(m, opcode)
         [] code = 5 -> jump_op(m, TRUE, opcode)
         [] code = 6 -> jump_op(m, FALSE, opcode)
         [] code = 7 -> bin_op(m, 7, opcode)
         [] code = 8 -> bin_op(m, 8, opcode)
         [] code = 9 -> adjust_op(m, opcode)
         [] code = 99 -> halt_op(m)
         [] OTHER -> invalid_op(m, code)

\* mutant: step does not look at the halted flag
step_unchecked(m) == dispatch(m)

step(m) ==
    IF m.halted THEN [m |-> m, res |-> Err("Halted", 0)]
    ELSE dispatch(m)

\* a machine this specification follows: its values stay inside the bounds
AllSmall(q) == \A i \in 1..Len(q) : q[i] >= -MaxVal /\ q[i] <= MaxVal

InBounds(m) ==
    /\ Len(m.memory) <= MaxMem
    /\ Len(m.output) <= MaxOut
    /\ m.pc <= MaxPc
    /\ m.relative_base >= -MaxBase /\ m.relative_base <= MaxBase
    /\ AllSmall(m.memory)
    /\ AllSmall(m.output)

\* a call that is not followed to its return
Unfollowed == [kind |-> "Unfollowed", val |-> 0]

\* run: while !self.halted { self.step()? }
\* (s ranges over the one-element set {step(m)}: the step is taken once)
RECURSIVE run_loop(_, _)
run_loop(m, fuel) ==
    IF m.halted THEN [m |-> m, res |-> Ok]
    ELSE IF fuel = 0 THEN [m |-> m, res |-> Unfollowed]
    ELSE CHOOSE r \in
           { IF s.res.kind # "Ok" THEN s
             ELSE IF ~InBounds(s.m) THEN [m |-> s.m, res |-> Unfollowed]
             ELSE run_loop(s.m, fuel - 1) : s \in {step(m)} } : TRUE

\* mutant: the error of a failing step is dropped
run_swallows(m) ==
    LET r == run_loop(m, MaxRunSteps)
    IN IF IsErr(r.res) THEN [m |-> r.m, res |-> Ok] ELSE r

\* mutant: run answers a halted machine as step does
run_rejects_halted(m) ==
    IF m.halted THEN [m |-> m, res |-> Err("Halted", 0)]
    ELSE run_loop(m, MaxRunSteps)

run(m) == run_loop(m, MaxRunSteps)

\* most steps a run of an example program is followed through
MaxExampleSteps == 90

\* the loop of run has not ended
Running == [kind |-> "Running", val |-> 0]

\* at most n turns of the loop of run, whatever the values get to: the
\* machine they lead to, and Ok when the loop ended on halted, the error
\* when it ended on a failing step, Running when it has not ended.  (The
\* turns are taken in order, the first half before the second, so that a
\* long run is not one deep nest of calls.)
RECURSIVE run_turns(_, _)
run_turns(m, n) ==
    IF m.halted THEN [m |-> m, res |-> Ok]
    ELSE IF n = 0 THEN [m |-> m, res |-> Running]
    ELSE IF n = 1
    THEN CHOOSE r \in
           { IF s.res.kind # "Ok" THEN s
             ELSE IF s.m.halted THEN s
             ELSE [m |-> s.m, res |-> Running] : s \in {step(m)} } : TRUE
    ELSE CHOOSE r \in
           { IF first.res.kind # "Running" THEN first
             ELSE run_turns(first.m, n - n \div 2)
             : first \in {run_turns(m, n \div 2)} } : TRUE

\* run, followed for at most fuel steps
run_steps(m, fuel) ==
    CHOOSE r \in
      { IF t.res.kind = "Running" THEN [m |-> t.m, res |-> Unfollowed] ELSE t
        : t \in {run_turns(m, fuel)} } : TRUE

\* mutant: pop_output hands out the front value without removing it
pop_output_keeps(m) ==
    IF m.output = <<>> THEN [m |-> m, res |-> OkNone]
    ELSE [m |-> m, res |-> OkSome(Head(m.output))]

\* pop_output: self.output.pop_front()
pop_output(m) ==
    IF m.output = <<>> THEN [m |-> m, res |-> OkNone]
    ELSE [m |-> [m EXCEPT !.output = Tail(@)], res |-> OkSome(Head(m.output))]

\* next_output: loop { halted? -> Err(Halted); step()?; pop_output -> break }
RECURSIVE next_output_loop(_, _)
next_output_loop(m, fuel) ==
    IF m.halted THEN [m |-> m, res |-> Err("Halted", 0)]
    ELSE IF fuel = 0 THEN [m |-> m, res |-> Unfollowed]
    ELSE CHOOSE r \in
           { IF s.res.kind # "Ok" THEN s
             ELSE IF ~InBounds(s.m) THEN [m |-> s.m, res |-> Unfollowed]
             ELSE IF pop_output(s.m).res.kind = "Some" THEN pop_output(s.m)
             ELSE next_output_loop(s.m, fuel - 1) : s \in {step(m)} } : TRUE

next_output(m) == next_output_loop(m, MaxRunSteps)

----------------------------------------------------------------------------
(* The machine of day2.rs: memory of u64 that does not grow, opcodes 1, 2  *)
(* and 99 matched on the whole word, every parameter a position.           *)

\* Machine::new of day2.rs
day2_new(prog) == [memory |-> prog, pc |-> 0, halted |-> FALSE]

\* get_data: self.memory.get(address), InvalidAddress beyond the end
day2_get_data(mem, address) ==
    IF address < Len(mem) THEN [kind |-> "Ok", val |-> mem[address + 1]]
    ELSE Err("InvalidAddress", address)

\* set_data: self.memory.get_mut(address), InvalidAddress beyond the end
day2_set_data(m, address, value) ==
    IF address < Len(m.memory)
    THEN [m |-> [m EXCEPT !.memory[address + 1] = value], res |-> Ok]
    ELSE [m |-> m, res |-> Err("InvalidAddress", address)]

\* mutant: the parameter is the operand
day2_get_arg_immediate(m, arg) == day2_get_data(m.memory, m.pc + 1 + arg)

\* get_arg: the parameter is the address of the operand
day2_get_arg(m, arg) ==
    LET ptr == day2_get_data(m.memory, m.pc + 1 + arg)
    IN IF ptr.kind # "Ok" THEN ptr ELSE day2_get_data(m.memory, ptr.val)

\* the closures step passes to bin_op
day2_closure(code, a, b) ==
    CASE code = 1 -> a + b
      [] code = 2 -> a * b

\* bin_op: both operands, then the address of the target, then the store
day2_bin_op(m, code) ==
    LET a == day2_get_arg(m, 0)
        b == day2_get_arg(m, 1)
        target == day2_get_data(m.memory, m.pc + 3)
    IN IF a.kind # "Ok" THEN [m |-> m, res |-> a]
       ELSE IF b.kind # "Ok" THEN [m |-> m, res |-> b]
       ELSE IF target.kind # "Ok" THEN [m |-> m, res |-> target]
       ELSE LET w == day2_set_data(m, target.val,
                                   day2_closure(code, a.val, b.val))
            IN IF w.res.kind # "Ok" THEN w
               ELSE [m |-> [w.m EXCEPT !.pc = @ + 4], res |-> Ok]

\* step of day2.rs
day2_step(m) ==
    IF m.halted THEN [m |-> m, res |-> Err("Halted", 0)]
    ELSE IF m.pc >= Len(m.memory)
    THEN [m |-> m, res |-> Err("InvalidAddress", m.pc)]
    ELSE LET opcode == m.memory[m.pc + 1]
         IN CASE opcode = 1 -> day2_bin_op(m, 1)
              [] opcode = 2 -> day2_bin_op(m, 2)
              [] opcode = 99 -> [m |-> [m EXCEPT !.halted = TRUE], res |-> Ok]
              [] OTHER -> [m |-> m, res |-> Err("InvalidInstruction", opcode)]

\* run of day2.rs: while !self.halted { self.step()? }
RECURSIVE day2_run_loop(_, _)
day2_run_loop(m, fuel) ==
    IF m.halted THEN [m |-> m, res |-> Ok]
    ELSE IF fuel = 0 THEN [m |-> m, res |-> Unfollowed]
    ELSE CHOOSE r \in
           { IF s.res.kind # "Ok" THEN s ELSE day2_run_loop(s.m, fuel - 1)
             : s \in {day2_step(m)} } : TRUE

day2_run(m) == day2_run_loop(m, MaxRunSteps)

----------------------------------------------------------------------------
(* The painting robot of day11.rs. *)

\* From<IntcodeError> for the Error of day11.rs
RobotIntcode(e) == [kind |-> "Intcode", val |-> e.val, cause |-> e.kind]

\* Color::try_from(i64)
Color_try_from(value) ==
    CASE value = 0 -> [kind |-> "Ok", color |-> "Black", val |-> 0]
      [] value = 1 -> [kind |-> "Ok", color |-> "White", val |-> 0]
      [] OTHER -> [kind |-> "InvalidColor", color |-> "Black", val |-> value]

\* From<Color> for i64
Color_into(color) == IF color = "Black" THEN 0 ELSE 1

\* RelativeDirection::try_from(i64)
RelativeDirection_try_from(value) ==
    CASE value = 0 -> [kind |-> "Ok", direction |-> "Left", val |-> 0]
      [] value = 1 -> [kind |-> "Ok", direction |-> "Right", val |-> 0]
      [] OTHER -> [kind |-> "InvalidDirection", direction |-> "Left",
                   val |-> value]

\* Position::go
go(position, direction) ==
    CASE direction = "North" -> [position EXCEPT !.y = @ - 1]
      [] direction = "East" -> [position EXCEPT !.x = @ + 1]
      [] direction = "South" -> [position EXCEPT !.y = @ + 1]
      [] direction = "West" -> [position EXCEPT !.x = @ - 1]

\* AbsoluteDirection::turned
turned(direction, by) ==
    IF by = "Left"
    THEN CASE direction = "North" -> "West"
           [] direction = "East" -> "North"
           [] direction = "South" -> "East"
           [] direction = "West" -> "South"
    ELSE CASE direction = "North" -> "East"
           [] direction = "East" -> "South"
           [] direction = "South" -> "West"
           [] direction = "West" -> "North"

\* Hull::default(): painted is a map from a position to a colour
Hull_default == [painted |-> [k \in {} |-> "Black"]]

\* Hull::paint
paint(h, position, color) ==
    [h EXCEPT !.painted = [k \in DOMAIN @ \cup {position} |->
                              IF k = position THEN color ELSE @[k]]]

\* Hull::get_color: Color::default() where nothing is painted
get_color(h, position) ==
    IF position \in DOMAIN h.painted THEN h.painted[position] ELSE "Black"

\* Robot::new: the direction and position; the machine is Machine::new
Robot_new == [direction |-> "North", position |-> [x |-> 0, y |-> 0]]

\* Ok(Some(Instruction)), Ok(None) and Err(IncompleteInstruction)
SomeInstruction(color, direction) ==
    [kind |-> "Some", val |-> 0, color |-> color, direction |-> direction]
IncompleteInstruction == [kind |-> "IncompleteInstruction", val |-> 0]

\* the match of next_instruction on the two results of next_output
pair(output1, output2) ==
    IF output1.kind = "Some" /\ output2.kind = "Some"
    THEN LET color == Color_try_from(output1.val)
             direction == RelativeDirection_try_from(output2.val)
         IN IF color.kind # "Ok" THEN [kind |-> color.kind, val |-> color.val]
            ELSE IF direction.kind # "Ok"
            THEN [kind |-> direction.kind, val |-> direction.val]
            ELSE SomeInstruction(color.color, direction.direction)
    ELSE IF output1.kind = "None" /\ output2.kind = "None" THEN OkNone
    ELSE IncompleteInstruction

\* Robot::next_instruction on the robot's machine: the colour is pushed,
\* then next_output is called twice, the second time only when the first
\* returned no error.  received is the number of outputs handed over.
next_instruction(m, color) ==
    CHOOSE r \in
      { IF o1.res.kind # "Some"
        THEN [m |-> o1.m,
              res |-> IF IsErr(o1.res) THEN RobotIntcode(o1.res) ELSE o1.res,
              received |-> 0]
        ELSE CHOOSE q \in
          { IF o2.res.kind # "Some"
            THEN [m |-> o2.m,
                  res |-> IF IsErr(o2.res) THEN RobotIntcode(o2.res)
                          ELSE o2.res,
                  received |-> 1]
            ELSE [m |-> o2.m, res |-> pair(o1.res, o2.res), received |-> 2]
            : o2 \in {next_output(o1.m)} } : TRUE
        : o1 \in {next_output([m EXCEPT !.input = Append(@, Color_into(color))])}
      } : TRUE

\* one turn of the loop of paint_hull: the robot (its machine m, and r) and
\* the hull after it, and Running when the loop goes on
paint_turn(m, r, h) ==
    CHOOSE t \in
      { IF ni.res.kind = "Some"
        THEN [m |-> ni.m,
              r |-> [direction |-> turned(r.direction, ni.res.direction),
                     position |-> go(r.position,
                                     turned(r.direction, ni.res.direction))],
              h |-> paint(h, r.position, ni.res.color),
              res |-> Running, received |-> ni.received]
        ELSE [m |-> ni.m, r |-> r, h |-> h,
              res |-> IF ni.res.kind = "None" THEN Ok ELSE ni.res,
              received |-> ni.received]
        : ni \in {next_instruction(m, get_color(h, r.position))} } : TRUE

\* Robot::paint_hull: while let Some(instruction) = next_instruction(..)?
RECURSIVE paint_hull_loop(_, _, _, _)
paint_hull_loop(m, r, h, fuel) ==
    IF fuel = 0
    THEN [m |-> m, r |-> r, h |-> h, res |-> Unfollowed, received |-> 0]
    ELSE CHOOSE t \in
           { IF s.res.kind = "Running"
             THEN paint_hull_loop(s.m, s.r, s.h, fuel - 1) ELSE s
             : s \in {paint_turn(m, r, h)} } : TRUE

paint_hull(m, r, h) == paint_hull_loop(m, r, h, MaxTurns)

----------------------------------------------------------------------------
(* The amplifier circuit of day7.rs. *)

\* the loop of run_amplifier: None when the amplifier is found halted,
\* else a step, and the output if the step left one
RECURSIVE run_amplifier_loop(_, _)
run_amplifier_loop(m, fuel) ==
    IF m.halted THEN [m |-> m, res |-> OkNone]
    ELSE IF fuel = 0 THEN [m |-> m, res |-> Unfollowed]
    ELSE CHOOSE r \in
           { IF s.res.kind # "Ok" THEN s
             ELSE IF ~InBounds(s.m) THEN [m |-> s.m, res |-> Unfollowed]
             ELSE IF pop_output(s.m).res.kind = "Some" THEN pop_output(s.m)
             ELSE run_amplifier_loop(s.m, fuel - 1)
             : s \in {step(m)} } : TRUE

\* Circuit::run_amplifier: the signal is pushed, then the loop
run_amplifier(amplifier, sig) ==
    run_amplifier_loop([amplifier EXCEPT !.input = Append(@, sig)],
                       MaxRunSteps)

\* run_circuit before its while loop: five machines of the program, each
\* with its phase setting pushed; i is the amplifier the for loop is at
Circuit_start(prog, phase_settings) ==
    [amplifiers |-> [k \in 1..5 |->
                       [new(prog) EXCEPT !.input = <<phase_settings[k]>>]],
     signal |-> 0, done |-> FALSE, i |-> 0]

\* mutant: the output of an amplifier is not passed on
fed_drops(c, r) ==
    [c EXCEPT !.amplifiers[c.i + 1] = r.m,
              !.done = IF r.res.kind = "Some" THEN @ ELSE TRUE,
              !.i = @ + 1]

\* the body of the for loop, after run_amplifier returned r without error
fed(c, r) ==
    [c EXCEPT !.amplifiers[c.i + 1] = r.m,
              !.signal = IF r.res.kind = "Some" THEN r.res.val ELSE @,
              !.done = IF r.res.kind = "Some" THEN @ ELSE TRUE,
              !.i = @ + 1]

\* the end of the for loop: if !loopback { done = true }
round_end(c, loopback) == [c EXCEPT !.done = @ \/ ~loopback, !.i = 0]

\* the variables of the puzzles as they start
PuzzlesIdle ==
    /\ robot = Robot_new
    /\ hull = Hull_default
    /\ received = 0
    /\ circuit = [amplifiers |-> <<>>, signal |-> 0, done |-> FALSE, i |-> 0]
    /\ amp_out = [last |-> <<>>, round |-> <<>>, latest |-> None, rounds |-> 0,
                  at |-> 0, fed |-> 0, was |-> None]

----------------------------------------------------------------------------
(* The arcade cabinet of day13.rs: a machine whose output, read three      *)
(* values at a time, is a stream of instructions for a screen.             *)

\* most steps of the arcade a call of run_until is followed through
MaxUntilSteps == 3

\* enum Error of day13.rs; an intcode error is wrapped with its cause
ArcadeErrorKinds == {"Intcode", "InvalidTile", "IncompleteInstruction"}
Intcode(e) == [kind |-> "Intcode", val |-> e.val, cause |-> e.kind]
IsArcadeErr(r) == r.kind \in ArcadeErrorKinds

\* Tile::try_from(i64)
Tile_try_from(value) ==
    CASE value = 0 -> [kind |-> "Ok", tile |-> "Empty"]
      [] value = 1 -> [kind |-> "Ok", tile |-> "Wall"]
      [] value = 2 -> [kind |-> "Ok", tile |-> "Block"]
      [] value = 3 -> [kind |-> "Ok", tile |-> "Paddle"]
      [] value = 4 -> [kind |-> "Ok", tile |-> "Ball"]
      [] OTHER -> [kind |-> "InvalidTile", tile |-> "Empty"]

\* enum Instruction, and the None of Option<Instruction>
Draw(x, y, tile) == [type |-> "Draw", x |-> x, y |-> y, tile |-> tile]
Score(score) == [type |-> "Score", score |-> score]
NoInstruction == [type |-> "None"]

is_frame(instruction) ==
    instruction.type = "Draw" /\ instruction.tile = "Ball"

is_empty(instruction) ==
    instruction.type = "Draw" /\ instruction.tile = "Empty"

\* Screen::default(): the framebuffer is a map from <<x, y>> to a tile
Screen_default ==
    [framebuffer |-> [k \in {} |-> "Empty"], last_instruction |-> NoInstruction,
     score |-> 0, ready |-> FALSE, paddle_x |-> 0, ball_x |-> 0,
     num_blocks |-> 0]

\* BTreeMap::insert
insert(fb, k, tile) ==
    [j \in DOMAIN fb \cup {k} |-> IF j = k THEN tile ELSE fb[j]]

\* Screen::run_instruction
run_instruction(scr, instruction) ==
    LET last == [scr EXCEPT !.last_instruction = instruction]
    IN IF instruction.type = "Draw"
       THEN LET k == <<instruction.x, instruction.y>>
                counted ==
                  CASE instruction.tile = "Paddle" ->
                         [last EXCEPT !.paddle_x = instruction.x]
                    [] instruction.tile = "Ball" ->
                         [last EXCEPT !.ball_x = instruction.x]
                    [] instruction.tile = "Block" ->
                         [last EXCEPT !.num_blocks = @ + 1]
                    [] instruction.tile = "Empty" ->
                         IF k \in DOMAIN scr.framebuffer
                            /\ scr.framebuffer[k] = "Block"
                         THEN [last EXCEPT !.num_blocks = @ - 1]
                         ELSE last
                    [] OTHER -> last
            IN [counted EXCEPT
                  !.framebuffer = insert(@, k, instruction.tile)]
       ELSE [last EXCEPT !.score = instruction.score]

\* the order of the keys (i64, i64) of the framebuffer
KeyLeq(j, k) == j[1] < k[1] \/ (j[1] = k[1] /\ j[2] <= k[2])

\* Screen::screen_size: one past the greatest key, None for an empty map
screen_size(scr) ==
    IF DOMAIN scr.framebuffer = {} THEN [some |-> FALSE, v |-> <<0, 0>>]
    ELSE LET max == CHOOSE k \in DOMAIN scr.framebuffer :
                       \A j \in DOMAIN scr.framebuffer : KeyLeq(j, k)
         IN [some |-> TRUE, v |-> <<max[1] + 1, max[2] + 1>>]

\* JoystickPosition into i64
JoystickPositions == {"Neutral", "Left", "Right"}
JoystickValue(joystick) ==
    CASE joystick = "Neutral" -> 0
      [] joystick = "Left" -> -1
      [] joystick = "Right" -> 1

\* Arcade::init_machine: the joystick is neutral and cell 0 is set to 2
init_machine(m) ==
    [m EXCEPT !.constant_input = Some(JoystickValue("Neutral")),
              !.memory = set_data(m.memory, 0, 2)]

\* Arcade::new; the field program is the variable program
Arcade_new(prog) ==
    [machine |-> init_machine(new(prog)), screen |-> Screen_default]

\* one next_output of read_instruction: an error of the machine is
\* converted with From<IntcodeError>
\* (here and below a call is made once and its result named by letting a
\* variable range over the one-element set of it)
read_value(m) ==
    CHOOSE v \in
      { IF r.res.kind \in {"Some", "None", "Unfollowed"} THEN r
        ELSE [m |-> r.m, res |-> Intcode(r.res)] : r \in {next_output(m)} }
      : TRUE

\* the match on (a, b, c) at the end of read_instruction
decode(m, a, b, c) ==
    IF a = -1 /\ b = 0
    THEN [m |-> m, res |-> OkSome(0), instruction |-> Score(c)]
    ELSE IF Tile_try_from(c).kind # "Ok"
    THEN [m |-> m, res |-> Err("InvalidTile", c), instruction |-> NoInstruction]
    ELSE [m |-> m, res |-> OkSome(0),
          instruction |-> Draw(a, b, Tile_try_from(c).tile)]

\* Arcade::read_instruction: three values, each from a next_output of its
\* own, the second and third only if the ones before were read
read_instruction(m) ==
    CHOOSE i \in
      { IF ra.res.kind # "Some"
        THEN [m |-> ra.m, res |-> ra.res, instruction |-> NoInstruction]
        ELSE CHOOSE i2 \in
          { IF rb.res.kind # "Some"
            THEN [m |-> rb.m, res |-> rb.res, instruction |-> NoInstruction]
            ELSE CHOOSE i3 \in
              { IF rc.res.kind # "Some"
                THEN [m |-> rc.m, res |-> rc.res,
                      instruction |-> NoInstruction]
                ELSE decode(rc.m, ra.res.val, rb.res.val, rc.res.val)
                : rc \in {read_value(rb.m)} } : TRUE
            : rb \in {read_value(ra.m)} } : TRUE
        : ra \in {read_value(m)} } : TRUE

\* Arcade::step: an instruction that was read is run on the screen
Arcade_step(a) ==
    CHOOSE s \in
      { IF r.res.kind = "Some"
        THEN [a |-> [machine |-> r.m,
                     screen |-> run_instruction(a.screen, r.instruction)],
              res |-> Ok]
        ELSE IF r.res.kind = "None"
        THEN [a |-> [a EXCEPT !.machine = r.m], res |-> Ok]
        ELSE [a |-> [a EXCEPT !.machine = r.m], res |-> r.res]
        : r \in {read_instruction(a.machine)} } : TRUE

\* the predicates the callers of run_until pass: the closures of
\* wait_until, wait_frame and load_screen.  They read the arcade and
\* change nothing, so the evaluation run_until makes for its debug line
\* before the loop is not seen in the state.
Predicates == {"wait_until", "wait_frame", "load_screen"}
Holds(f, a) ==
    CASE f = "wait_until" -> is_empty(a.screen.last_instruction)
      [] f = "wait_frame" -> is_frame(a.screen.last_instruction)
      [] f = "load_screen" ->
           screen_size(a.screen) = [some |-> TRUE, v |-> <<37, 20>>]

\* Arcade::run_until: while !f(self) { self.step()? }
\* (s ranges over the one-element set {Arcade_step(a)})
RECURSIVE run_until_loop(_, _, _)
run_until_loop(a, f, fuel) ==
    IF Holds(f, a) THEN [a |-> a, res |-> Ok]
    ELSE IF fuel = 0 THEN [a |-> a, res |-> Unfollowed]
    ELSE CHOOSE r \in
           { IF s.res.kind # "Ok" THEN s
             ELSE IF ~InBounds(s.a.machine) THEN [a |-> s.a, res |-> Unfollowed]
             ELSE run_until_loop(s.a, f, fuel - 1) : s \in {Arcade_step(a)} }
           : TRUE

\* mutant: the predicate is tried after the step, not before it
run_until_steps_first(a, f) ==
    CHOOSE r \in
      { IF s.res.kind # "Ok" THEN s
        ELSE IF ~InBounds(s.a.machine) THEN [a |-> s.a, res |-> Unfollowed]
        ELSE run_until_loop(s.a, f, MaxUntilSteps - 1)
        : s \in {Arcade_step(a)} } : TRUE

run_until(a, f) == run_until_loop(a, f, MaxUntilSteps)

----------------------------------------------------------------------------
(* The programs machines are constructed from, and the caller's arguments. *)

\* an instruction word: opcode and the mode digits of its three parameters
Word(op, m1, m2, m3) == op + 100 * m1 + 1000 * m2 + 10000 * m3

\* the mode digits tried: the three modes and one digit that is no mode
ModeDigits == {0, 1, 2, 3}

\* the parameters of the binary operations tried
BinParams ==
    { <<-1, 1, 5>>, <<1, -1, 0>>, <<1, 1, -1>>, <<-1, -1, -1>>, <<1, 1, 5>> }

\* one binary operation, every mode combination, then zeros
BinPrograms ==
    { <<Word(op, m1, m2, m3)>> \o p :
        op \in {1, 2, 7, 8}, m1 \in ModeDigits, m2 \in ModeDigits,
        m3 \in ModeDigits, p \in BinParams }

\* one jump followed by a halt
JumpPrograms ==
    { <<Word(op, m1, m2, 0), a, b, 99>> :
        op \in {5, 6}, m1 \in ModeDigits, m2 \in ModeDigits,
        a \in {-1, 0, 4}, b \in {-1, 0, 3} }

\* one input, output or relative-base instruction, then a halt or an output
UnaryPrograms ==
    { <<Word(op, m1, 0, 0), a, b>> :
        op \in {3, 4, 9}, m1 \in ModeDigits, a \in {-1, 0, 1, 5}, b \in {99, 4} }

\* a relative-base adjustment, then one instruction in relative mode
RelPrograms ==
    { <<109, r, w, a, b, b>> :
        r \in {-1, 2},
        w \in {Word(op, 2, 2, 2) : op \in 1..9} \cup
              {Word(op, 1, 1, 2) : op \in {1, 2, 7, 8}},
        a \in {-3, -1, 0, 1}, b \in {-3, 1} }

\* programs that read and write several values, and single words
IOPrograms ==
    { <<3, 9, 3, 10, 4, 10, 4, 9, 99>>,
      <<4, 0, 4, 1, 99>>,
      <<3, 7, 4, 7, 1105, 1, 0>>,
      <<104, 5, 3, 0, 99>>,
      <<3004, 0, 30099>>,
      <<1101, 1, 1, 5, 99>>,
      <<109, 2, 203, -1, 204, -1, 99>>,
      <<109, 1, 1102, 2, 3, 11, 1108, 1, 1, 11, 99>>,
      <<209, 1, 109, 2, 1106, 0, 7, 1107, 1, 2, 0, 99>>,
      <<103, 0, 99>>, <<3, -1, 99>>, <<303, 0, 99>>,
      <<99>>, <<1099>>, <<199>>, <<0>>, <<10>>, <<-1>>, <<-99>>, <<>> }

\* instruction words that select no operation, in every decimal shape
WordPrograms ==
    { <<1000>>, <<20098, 0>>, <<12, 1, 1, 0>>, <<-50>>, <<-101>>, <<-1003, 0>> }

\* the programs of SpecArcade, as written before init_machine sets cell 0
\* to 2 (a multiplication): a block, a ball and then tiles that are none,
\* drawn in a loop at one place; a score that doubles; a paddle that
\* moves; empty tiles; two values and a halt; two values and a word that
\* is no instruction; a wall at <<36, 19>>; a paddle where the joystick is
ArcadePrograms ==
    { <<1, 9, 0, 9, 104, 0, 104, 0, 104, 1, 1105, 1, 0>>,
      <<1, 9, 0, 9, 104, -1, 104, 0, 104, 1, 1105, 1, 0>>,
      <<1, 5, 0, 5, 104, 1, 104, 0, 104, 3, 1105, 1, 0>>,
      <<1, 9, 5, 9, 104, 0, 104, 0, 104, 2, 1105, 1, 0>>,
      <<1, 0, 0, 0, 104, 3, 104, 1, 99>>,
      <<1, 0, 0, 0, 104, 1, 104, 1, 98>>,
      <<1, 0, 0, 0, 104, 36, 104, 19, 104, 1, 99>>,
      <<1, 1, 1, 1, 3, 7, 104, 0, 104, 0, 104, 3, 99>> }

\* the example programs: one that emits itself, one that compares its
\* input with 8, one that multiplies by an immediate operand, one that
\* adds and multiplies
Quine ==
    <<109, 1, 204, -1, 1001, 100, 1, 100, 1008, 100, 16, 101, 1006, 101, 0, 99>>
EqualsEight == <<3, 9, 8, 9, 10, 9, 4, 9, 99, -1, 8>>
MultiplyImmediate == <<1002, 4, 3, 4, 33>>
AddMultiply == <<1, 9, 10, 3, 2, 3, 11, 0, 99, 30, 40, 50>>
ExamplePrograms == {Quine, EqualsEight, MultiplyImmediate, AddMultiply}

\* programs both machines are made from: one instruction and a halt with
\* every choice of parameters inside and just outside the program, and
\* programs of two instructions
Day2Programs ==
    { <<op, a, b, c, 99>> : op \in {1, 2, 3, 99}, a, b, c \in {0, 1, 4, 5} }
      \cup { AddMultiply, <<1, 1, 1, 4, 99, 5, 6, 0, 99>>,
              <<2, 4, 4, 5, 99, 0>>, <<1, 0, 0, 0, 2, 0, 0, 0, 99>>,
              <<1, 0, 0, 0>>, <<101, 0, 0, 0, 99>> }

\* words at and next to the ends of the i64 range, and small ones
WideValues == {MinWord, -3, -1, 0, 2, 65536, MaxWord}

\* programs whose arithmetic meets the ends of the i64 range: an add or a
\* multiply of two immediates, two adjustments of relative_base, a
\* relative read and a relative write after an adjustment
WidePrograms ==
    { <<op, a, b, 5, 99>> : op \in {1101, 1102}, a, b \in WideValues }
      \cup { <<109, a, 109, b, 99>> : a, b \in {MinWord, -1, 1, MaxWord} }
      \cup { <<109, a, 204, b, 99>> :
                a \in {MinWord, 1, MaxWord}, b \in {MinWord, -1, 1, MaxWord} }
      \cup { <<109, MaxWord, 21101, 1, 1, b, 99>> : b \in {1, MinWord + 8} }

\* programs of a painting robot: one or two turns of reading the colour
\* and emitting a colour and a direction, valid or not, before the halt;
\* a halt or an unknown opcode in other places; the colour read emitted
\* back; a robot that never halts
RobotPrograms ==
    { <<3, 0, 104, c, 104, d, 99>> : c, d \in 0..2 }
      \cup { <<3, 0, 104, c, 104, d, 3, 0, 104, e, 104, f, 99>> :
                c, d, e, f \in 0..1 }
      \cup { <<99>>, <<3, 0, 99>>, <<3, 0, 104, 1, 99>>,
              <<3, 0, 104, 1, 104, 0, 98>>, <<3, 0, 104, 1, 98>>,
              <<3, 0, 104, 1, 104, 1, 3, 0, 104, 0, 99>>,
              <<3, 3, 104, 0, 104, 1, 99>>,
              <<3, 9, 104, 1, 104, 0, 1105, 1, 0>> }

\* programs of an amplifier: phase + signal, then halt; the signal passed
\* on for ever; the signal passed on twice; silent when the phase is 0;
\* an unknown opcode after the first output; the phase emitted for every
\* signal, once when the phase is 0 and for ever otherwise; a halt and
\* nothing else
CircuitPrograms ==
    { <<3, 11, 3, 12, 1, 11, 12, 12, 4, 12, 99, 0, 0>>,
      <<3, 9, 3, 10, 4, 10, 1105, 1, 2, 0, 0>>,
      <<3, 11, 3, 11, 4, 11, 3, 11, 4, 11, 99, 0>>,
      <<3, 12, 1005, 12, 6, 99, 3, 12, 4, 12, 99, 0, 0>>,
      <<3, 7, 3, 7, 4, 7, 98, 0>>,
      <<3, 1, 3, 0, 4, 1, 1005, 1, 2, 99>>,
      <<99>> }

\* phase settings [u8; 5]
PhaseSettings ==
    { <<0, 1, 2, 3, 4>>, <<4, 3, 2, 1, 0>>, <<1, 0, 2, 3, 4>>,
      <<5, 6, 7, 8, 9>>, <<9, 8, 7, 6, 5>>, <<1, 2, 3, 4, 0>> }

\* the programs of Spec, which has every operation
Programs == IOPrograms

\* the programs of SpecStep, which has every instruction in every mode
InstrPrograms ==
    BinPrograms \cup JumpPrograms \cup UnaryPrograms \cup RelPrograms
        \cup IOPrograms \cup WordPrograms

\* the values a caller pushes, sets as constant input, and patches memory with
InputValues == {7, 8}
ConstantValues == {5, 6}
Patches == {<<0, 3>>, <<6, 1>>}

----------------------------------------------------------------------------
(* The state after Machine::new(program), and one action per operation. *)

InitWith(progs) ==
    /\ program \in progs
    /\ memory = new(program).memory
    /\ pc = new(program).pc
    /\ halted = new(program).halted
    /\ input = new(program).input
    /\ output = new(program).output
    /\ relative_base = new(program).relative_base
    /\ constant_input = new(program).constant_input
    /\ prev = new(program)
    /\ lastOp = "new"
    /\ lastArgs = <<>>
    /\ result = Ok
    /\ pushed = <<>>
    /\ stored = <<>>
    /\ returned = <<>>
    /\ screen = Screen_default
    /\ prevScreen = Screen_default
    /\ day2 = day2_new(<<>>)
    /\ day2_result = Ok
    /\ overflow_checks \in BOOLEAN
    /\ PuzzlesIdle

\* the machine becomes m; the call was op(args) and returned res
CommitMachine(op, args, m, res) ==
    /\ memory' = m.memory
    /\ pc' = m.pc
    /\ halted' = m.halted
    /\ input' = m.input
    /\ output' = m.output
    /\ relative_base' = m.relative_base
    /\ constant_input' = m.constant_input
    /\ prev' = Machine
    /\ lastOp' = op
    /\ lastArgs' = args
    /\ result' = res
    /\ program' = program

\* a call on a machine that is not part of an arcade
Commit(op, args, m, res) ==
    /\ CommitMachine(op, args, m, res)
    /\ UNCHANGED <<screen, prevScreen, day2, day2_result, overflow_checks,
                   puzzles>>

\* the instruction word at pc and its opcode
WordAt(m) == get_data(m.memory, m.pc)
OpcodeAt(m) == Rem(WordAt(m), 100)

\* the address parameter arg_num of the instruction at pc designates
TargetAddress(m, arg_num) ==
    LET arg == get_data(m.memory, m.pc + 1 + arg_num)
    IN IF get_param_mode(WordAt(m), arg_num).mode = "Relative"
       THEN arg + m.relative_base ELSE arg

Step ==
    LET r == step(Machine)
    IN /\ InBounds(r.m)
       /\ Commit("step", <<>>, r.m, r.res)
       /\ stored' = IF /\ ~halted
                       /\ ~constant_input.some
                       /\ OpcodeAt(Machine) = 3
                       /\ r.res.kind = "Ok"
                    THEN Append(stored,
                                get_data(r.m.memory, TargetAddress(Machine, 0)))
                    ELSE stored
       /\ UNCHANGED <<pushed, returned>>

Run ==
    LET r == run(Machine)
    IN /\ r.res.kind # "Unfollowed"
       /\ Commit("run", <<>>, r.m, r.res)
       /\ UNCHANGED <<pushed, stored, returned>>

NextOutput ==
    LET r == next_output(Machine)
    IN /\ r.res.kind # "Unfollowed"
       /\ r.res.kind = "Some" => Len(returned) < MaxReturned
       /\ Commit("next_output", <<>>, r.m, r.res)
       /\ returned' = IF r.res.kind = "Some" THEN Append(returned, r.res.val)
                      ELSE returned
       /\ UNCHANGED <<pushed, stored>>

PushInput ==
    \E value \in InputValues :
       /\ Len(pushed) < MaxPush
       /\ Commit("push_input", <<value>>, [Machine EXCEPT !.input = Append(@, value)], Ok)
       /\ pushed' = Append(pushed, value)
       /\ UNCHANGED <<stored, returned>>

SetConstantInput ==
    \E value \in ConstantValues :
       /\ Commit("set_contant_input", <<value>>,
                 [Machine EXCEPT !.constant_input = Some(value)], Ok)
       /\ UNCHANGED <<pushed, stored, returned>>

PopOutput ==
    LET r == pop_output(Machine)
    IN /\ r.res.kind = "Some" => Len(returned) < MaxReturned
       /\ Commit("pop_output", <<>>, r.m, r.res)
       /\ returned' = IF r.res.kind = "Some" THEN Append(returned, r.res.val)
                      ELSE returned
       /\ UNCHANGED <<pushed, stored>>

\* get_output: self.output.drain(..).collect()
GetOutput ==
    /\ Len(returned) + Len(output) <= MaxReturned
    /\ Commit("get_output", <<>>, [Machine EXCEPT !.output = <<>>],
              [kind |-> "Vec", val |-> Len(output)])
    /\ returned' = returned \o output
    /\ UNCHANGED <<pushed, stored>>

SetData ==
    \E p \in Patches :
       /\ p[1] < MaxMem
       /\ Commit("set_data", p,
                 [Machine EXCEPT !.memory = set_data(memory, p[1], p[2])], Ok)
       /\ UNCHANGED <<pushed, stored, returned>>

Next ==
    \/ Step
    \/ Run
    \/ NextOutput
    \/ PushInput
    \/ SetConstantInput
    \/ PopOutput
    \/ GetOutput
    \/ SetData

Init == InitWith(Programs)

Spec == Init /\ [][Next]_vars

(* The machine stepped one instruction at a time by a caller that only *)
(* supplies input: every instruction in every addressing mode.         *)

InitStep == InitWith(InstrPrograms)

NextStep ==
    \/ Step
    \/ PushInput
    \/ SetConstantInput

SpecStep == InitStep /\ [][NextStep]_vars

(* The machine driven only through next_output by a caller that supplies *)
(* input.                                                                *)

InitPoll == InitWith(UnaryPrograms \cup JumpPrograms \cup IOPrograms)

NextPoll ==
    \/ NextOutput
    \/ PushInput

SpecPoll == InitPoll /\ [][NextPoll]_vars

----------------------------------------------------------------------------
(* SpecExample: the example programs, stepped and run to their end.        *)

ExampleStep ==
    \E r \in {step(Machine)} :
       /\ Commit("step", <<>>, r.m, r.res)
       /\ UNCHANGED <<pushed, stored, returned>>

ExampleRun ==
    \E r \in {run_steps(Machine, MaxExampleSteps)} :
       /\ r.res.kind # "Unfollowed"
       /\ Commit("run", <<>>, r.m, r.res)
       /\ UNCHANGED <<pushed, stored, returned>>

InitExample == InitWith(ExamplePrograms)

NextExample ==
    \/ ExampleStep
    \/ ExampleRun
    \/ PushInput

SpecExample == InitExample /\ [][NextExample]_vars

----------------------------------------------------------------------------
(* SpecDay2: the machine and the day-2 machine, made from one program and  *)
(* given the same calls.                                                   *)

Day2Step ==
    \E r \in {step(Machine)} : \E d \in {day2_step(day2)} :
       /\ InBounds(r.m)
       /\ CommitMachine("step", <<>>, r.m, r.res)
       /\ day2' = d.m
       /\ day2_result' = d.res
       /\ UNCHANGED <<pushed, stored, returned, screen, prevScreen,
                    overflow_checks, puzzles>>

Day2Run ==
    \E r \in {run(Machine)} : \E d \in {day2_run(day2)} :
       /\ r.res.kind # "Unfollowed" /\ d.res.kind # "Unfollowed"
       /\ CommitMachine("run", <<>>, r.m, r.res)
       /\ day2' = d.m
       /\ day2_result' = d.res
       /\ UNCHANGED <<pushed, stored, returned, screen, prevScreen,
                    overflow_checks, puzzles>>

InitDay2 ==
    /\ program \in Day2Programs
    /\ memory = new(program).memory
    /\ pc = new(program).pc
    /\ halted = new(program).halted
    /\ input = new(program).input
    /\ output = new(program).output
    /\ relative_base = new(program).relative_base
    /\ constant_input = new(program).constant_input
    /\ prev = new(program)
    /\ lastOp = "new"
    /\ lastArgs = <<>>
    /\ result = Ok
    /\ pushed = <<>>
    /\ stored = <<>>
    /\ returned = <<>>
    /\ screen = Screen_default
    /\ prevScreen = Screen_default
    /\ day2 = day2_new(program)
    /\ day2_result = Ok
    /\ overflow_checks \in BOOLEAN
    /\ PuzzlesIdle

NextDay2 ==
    \/ Day2Step
    \/ Day2Run

SpecDay2 == InitDay2 /\ [][NextDay2]_vars

----------------------------------------------------------------------------
(* SpecWide: step on programs whose values reach the ends of the i64       *)
(* range, in either build.  After a panic the process has ended and no     *)
(* call follows.                                                           *)

WideStep ==
    \E r \in {step(Machine)} :
       /\ result.kind # "Panic"
       /\ Len(r.m.memory) <= MaxMem
       /\ Commit("step", <<>>, r.m, r.res)
       /\ UNCHANGED <<pushed, stored, returned>>

InitWide == InitWith(WidePrograms)

NextWide == WideStep

SpecWide == InitWide /\ [][NextWide]_vars

----------------------------------------------------------------------------
(* SpecRobot: a robot made by Robot::new on an empty hull.  PaintHull is   *)
(* the call of paint_hull from beginning to end; PaintTurn is one turn of  *)
(* its loop, taken while the call has not returned.                        *)

\* the robot and the hull become those of t; the call was op
CommitRobot(op, t) ==
    /\ CommitMachine(op, <<>>, t.m, t.res)
    /\ robot' = t.r
    /\ hull' = t.h
    /\ received' = t.received
    /\ UNCHANGED <<pushed, stored, returned, screen, prevScreen, day2,
                   day2_result, overflow_checks, circuit, amp_out>>

PaintTurn ==
    \E t \in {paint_turn(Machine, robot, hull)} :
       /\ lastOp = "new" \/ (lastOp = "paint_turn" /\ result = Running)
       /\ t.res.kind # "Unfollowed"
       /\ InBounds(t.m)
       /\ CommitRobot("paint_turn", t)

PaintHull ==
    \E t \in {paint_hull(Machine, robot, hull)} :
       /\ lastOp = "new"
       /\ t.res.kind # "Unfollowed"
       /\ InBounds(t.m)
       /\ CommitRobot("paint_hull", t)

InitRobot == InitWith(RobotPrograms)

NextRobot ==
    \/ PaintTurn
    \/ PaintHull

SpecRobot == InitRobot /\ [][NextRobot]_vars

----------------------------------------------------------------------------
(* SpecCircuit: one call of run_circuit on a Circuit of the program.       *)
(* RunCircuit is the call up to its while loop, RunAmplifier one turn of   *)
(* the for loop, with the end of the round and the return of the call when *)
(* the turn is the last.  While the call has not returned result is        *)
(* Running; Ok(signal) is OkSome(signal).  amp_out records, for the        *)
(* properties, what each amplifier emitted last, which amplifiers emitted  *)
(* in the round, the value emitted last of all and the rounds begun, and   *)
(* of the last call of run_amplifier the amplifier (at), the signal it was *)
(* given (fed) and the value emitted last of all before it (was).          *)

RunCircuit ==
    \E phase_settings \in PhaseSettings, loopback \in BOOLEAN :
       /\ lastOp = "new"
       /\ circuit' = Circuit_start(program, phase_settings)
       /\ amp_out' = [last |-> [k \in 1..5 |-> None],
                      round |-> [k \in 1..5 |-> FALSE],
                      latest |-> None, rounds |-> 1,
                      at |-> 0, fed |-> 0, was |-> None]
       /\ lastOp' = "run_circuit"
       /\ lastArgs' = <<phase_settings, loopback>>
       /\ result' = Running
       /\ UNCHANGED <<memory, pc, halted, input, output, relative_base,
                      constant_input, prev, program, pushed, stored, returned,
                      screen, prevScreen, day2, day2_result, overflow_checks,
                      robot, hull, received>>

RunAmplifier ==
    /\ lastOp \in {"run_circuit", "run_amplifier"}
    /\ result = Running
    /\ amp_out.rounds <= MaxRounds
    /\ \E r \in {run_amplifier(circuit.amplifiers[circuit.i + 1],
                              circuit.signal)} :
          /\ r.res.kind # "Unfollowed"
          /\ lastOp' = "run_amplifier"
          /\ lastArgs' = lastArgs
          /\ IF IsErr(r.res) \/ r.res.kind = "Panic"
             THEN /\ circuit' = [circuit EXCEPT !.amplifiers[circuit.i + 1] = r.m]
                  /\ result' = r.res
                  /\ amp_out' = amp_out
             ELSE \E c \in {fed(circuit, r)} :
                    \E e \in {IF c.i = 5 THEN round_end(c, lastArgs[2]) ELSE c} :
                      /\ circuit' = e
                      /\ result' = IF c.i = 5 /\ e.done
                                    THEN OkSome(e.signal) ELSE Running
                      /\ amp_out' =
                        [last |-> IF r.res.kind = "Some"
                                  THEN [amp_out.last EXCEPT
                                          ![circuit.i + 1] = Some(r.res.val)]
                                  ELSE amp_out.last,
                         round |-> [k \in 1..5 |->
                                      IF k = circuit.i + 1
                                      THEN r.res.kind = "Some"
                                      ELSE IF circuit.i = 0 THEN FALSE
                                      ELSE amp_out.round[k]],
                         latest |-> IF r.res.kind = "Some"
                                    THEN Some(r.res.val) ELSE amp_out.latest,
                         rounds |-> IF c.i = 5 /\ ~e.done
                                    THEN amp_out.rounds + 1
                                    ELSE amp_out.rounds,
                         at |-> circuit.i, fed |-> circuit.signal,
                         was |-> amp_out.latest]
    /\ UNCHANGED <<memory, pc, halted, input, output, relative_base,
                   constant_input, prev, program, pushed, stored, returned,
                   screen, prevScreen, day2, day2_result, overflow_checks,
                   robot, hull, received>>

InitCircuit == InitWith(CircuitPrograms)

NextCircuit ==
    \/ RunCircuit
    \/ RunAmplifier

SpecCircuit == InitCircuit /\ [][NextCircuit]_vars

----------------------------------------------------------------------------
(* SpecScreen: a Screen on its own, from Screen::default(), given any      *)
(* instructions through run_instruction.                                   *)

Tiles == {"Empty", "Wall", "Block", "Paddle", "Ball"}

ScreenInstructions ==
    { Draw(x, 0, tile) : x \in 0..1, tile \in Tiles } \cup { Score(7) }

RunInstruction ==
    \E instruction \in ScreenInstructions :
       /\ screen.num_blocks < MaxBlocks
       /\ screen' = run_instruction(screen, instruction)
       /\ prevScreen' = screen
       /\ lastOp' = "run_instruction"
       /\ lastArgs' = <<instruction>>
       /\ result' = Ok
       /\ UNCHANGED <<memory, pc, halted, input, output, relative_base,
                      constant_input, prev, program, pushed, stored, returned,
                      day2, day2_result, overflow_checks, puzzles>>

InitScreen == InitWith({<<>>})

NextScreen == RunInstruction

SpecScreen == InitScreen /\ [][NextScreen]_vars

----------------------------------------------------------------------------
(* The arcade: its machine is the machine of the variables above, its      *)
(* screen the variable screen.                                             *)

Arcade == [machine |-> Machine, screen |-> screen]

\* the arcade becomes a; the call was op(args) and returned res
CommitArcade(op, args, a, res) ==
    /\ CommitMachine(op, args, a.machine, res)
    /\ screen' = a.screen
    /\ prevScreen' = screen
    /\ UNCHANGED <<pushed, stored, returned, day2, day2_result,
                 overflow_checks, puzzles>>

ArcadeStep ==
    \E r \in {Arcade_step(Arcade)} :
       /\ r.res.kind # "Unfollowed"
       /\ InBounds(r.a.machine)
       /\ CommitArcade("Arcade::step", <<>>, r.a, r.res)

RunUntil ==
    \E f \in Predicates :
       \E r \in {run_until(Arcade, f)} :
          /\ r.res.kind # "Unfollowed"
          /\ InBounds(r.a.machine)
          /\ CommitArcade("run_until", <<f>>, r.a, r.res)

SetJoystick ==
    \E joystick \in JoystickPositions :
       CommitArcade("set_joystick", <<joystick>>,
                    [Arcade EXCEPT !.machine.constant_input =
                                      Some(JoystickValue(joystick))], Ok)

\* SpecArcade: an arcade driven by step, run_until and the joystick
InitArcade ==
    /\ program \in ArcadePrograms
    /\ memory = Arcade_new(program).machine.memory
    /\ pc = 0
    /\ halted = FALSE
    /\ input = <<>>
    /\ output = <<>>
    /\ relative_base = 0
    /\ constant_input = Arcade_new(program).machine.constant_input
    /\ prev = Arcade_new(program).machine
    /\ lastOp = "Arcade::new"
    /\ lastArgs = <<>>
    /\ result = Ok
    /\ pushed = <<>>
    /\ stored = <<>>
    /\ returned = <<>>
    /\ screen = Arcade_new(program).screen
    /\ prevScreen = Arcade_new(program).screen
    /\ day2 = day2_new(<<>>)
    /\ day2_result = Ok
    /\ overflow_checks \in BOOLEAN
    /\ PuzzlesIdle

NextArcade ==
    \/ ArcadeStep
    \/ RunUntil
    \/ SetJoystick

SpecArcade == InitArcade /\ [][NextArcade]_vars

----------------------------------------------------------------------------
(* Vocabulary of the properties: the instruction a step decodes, read off *)
(* the machine the step starts from.                                      *)

\* raw parameter i of the instruction at pc, and its mode digit
Param(m, i) == get_data(m.memory, m.pc + 1 + i)
ModeDigit(m, i) == (WordAt(m) \div (100 * 10 ^ i)) % 10

\* parameter i names a negative address
NegativeAddress(m, i) ==
    \/ ModeDigit(m, i) = 0 /\ Param(m, i) < 0
    \/ ModeDigit(m, i) = 2 /\ Param(m, i) + m.relative_base < 0

\* parameter i can be read as an operand / can be written to
Readable(m, i) == ModeDigit(m, i) \in {0, 1, 2} /\ ~NegativeAddress(m, i)
Writable(m, i) == ModeDigit(m, i) \in {0, 2} /\ ~NegativeAddress(m, i)

\* the value operand i reads
OperandValue(m, i) ==
    IF ModeDigit(m, i) = 1 THEN Param(m, i)
    ELSE get_data(m.memory, TargetAddress(m, i))

\* an input instruction finds a value
InputAvailable(m) == m.constant_input.some \/ m.input # <<>>

\* the last operation was a step of a machine that was not halted, and the
\* instruction it decoded had an opcode in ops
Stepped(ops) == lastOp = "step" /\ ~prev.halted /\ OpcodeAt(prev) \in ops

Failed == IsErr(result)

----------------------------------------------------------------------------
(* C1: a step that fails with InvalidAddress, InvalidParameterMode or     *)
(* InvalidInstruction leaves the whole machine (memory, pc, relative_base, *)
(* halted, input queue, output queue) as it was, for every opcode.        *)
C1_FailedStepHasNoEffect ==
    (Stepped(1..9) /\ result.kind \in
        {"InvalidAddress", "InvalidParameterMode", "InvalidInstruction"})
    => Machine = prev

(* C2: halted never goes back to false, and it becomes true only in a     *)
(* stepping operation whose last instruction has opcode 99.                *)
C2_HaltedOnlyByHalt ==
    /\ prev.halted => halted
    /\ (halted /\ ~prev.halted) =>
          /\ lastOp \in {"step", "run", "next_output"}
          /\ OpcodeAt(Machine) = 99

\* a halted machine whose instruction at pc was patched is still halted
C2_Witness ==
    /\ prev.halted /\ halted
    /\ lastOp = "set_data"
    /\ OpcodeAt(prev) = 99 /\ OpcodeAt(Machine) # 99

(* C3: step on a halted machine returns Halted and changes nothing,       *)
(* whatever the instruction at pc.                                        *)
C3_StepOnHalted ==
    (lastOp = "step" /\ prev.halted) =>
        (result = Err("Halted", 0) /\ Machine = prev)

\* the step was tried on a halted machine whose pc points at an input
\* instruction with input waiting
C3_Witness ==
    /\ lastOp = "step" /\ prev.halted
    /\ OpcodeAt(prev) = 3 /\ prev.input # <<>>

IsPrefix(p, q) == Len(p) <= Len(q) /\ p = SubSeq(q, 1, Len(p))

\* the same program run to its end by run, with every value pushed so far
\* queued before the first step, and followed long enough to get there
Reference ==
    run_loop([new(program) EXCEPT !.input = pushed],
             MaxRunSteps * (MaxReturned + 2))

(* C4: driven only through next_output, the values the calls return are   *)
(* the values the output instructions emitted, each once and in order     *)
(* (the output queue of the same program under run); nothing is left in   *)
(* the queue between calls; and once the machine has halted the next call *)
(* returns Halted, by which time every emitted value has been returned.   *)
C4_NextOutputInOrder ==
    /\ output = <<>>
    /\ IsPrefix(returned, Reference.m.output)
    /\ halted => next_output(Machine).res = Err("Halted", 0)
    /\ (lastOp = "next_output" /\ result.kind = "Halted") =>
          (Reference.res = Ok /\ returned = Reference.m.output)

\* two different values were read, emitted in the other order and returned,
\* and the call after the second one reported Halted
C4_Witness ==
    /\ lastOp = "next_output" /\ result.kind = "Halted"
    /\ ~prev.halted
    /\ Len(returned) = 2 /\ Len(pushed) = 2
    /\ returned[1] # returned[2]
    /\ returned = <<pushed[2], pushed[1]>>

\* the number of parameters of the instructions with opcode op
Arity(op) ==
    CASE op \in {1, 2, 7, 8} -> 3
      [] op \in {5, 6} -> 2
      [] op \in {3, 4, 9} -> 1
      [] OTHER -> 0

\* the parameter an instruction with opcode op writes to (none: -1)
Destination(op) ==
    CASE op \in {1, 2, 7, 8} -> 2
      [] op = 3 -> 0
      [] OTHER -> -1

\* parameter i of the instruction is free of faults
Sound(m, i) ==
    IF i = Destination(OpcodeAt(m)) THEN Writable(m, i) ELSE Readable(m, i)

\* a jump with opcode op whose first operand is v goes to its target
Taken(op, v) == (op = 5 /\ v # 0) \/ (op = 6 /\ v = 0)

\* the step resolves parameter i: the parameters before it are sound, an
\* input instruction has found its value, a jump's target is wanted
Resolved(m, i) ==
    /\ i < Arity(OpcodeAt(m))
    /\ \A j \in 0..(i - 1) : Sound(m, j)
    /\ OpcodeAt(m) = 3 => InputAvailable(m)
    /\ (OpcodeAt(m) \in {5, 6} /\ i = 1) =>
           Taken(OpcodeAt(m), OperandValue(m, 0))

(* C5: a step whose instruction carries a mode digit other than 0, 1, 2   *)
(* for one of its operands (either operand of a jump, any of the three of *)
(* a binary operation) fails with InvalidParameterMode.  The operands     *)
(* before the bad digit are free of faults and an input instruction has a *)
(* value to read, so that no other error comes first.                     *)
C5_BadModeDigitFails ==
    \A i \in 0..2 :
       (/\ Stepped(1..9)
        /\ i < Arity(OpcodeAt(prev))
        /\ ModeDigit(prev, i) \notin {0, 1, 2}
        /\ \A j \in 0..(i - 1) : Sound(prev, j)
        /\ OpcodeAt(prev) = 3 => InputAvailable(prev))
       => result = Err("InvalidParameterMode", ModeDigit(prev, i))

(* C6: a step of a writing instruction (opcode 1, 2, 3, 7, 8) whose        *)
(* destination has mode digit 1 fails with InvalidInstruction and leaves   *)
(* memory as it was, when its source operands resolve and an input        *)
(* instruction has a value to read.                                       *)
C6_ImmediateDestinationFails ==
    (/\ Stepped({1, 2, 3, 7, 8})
     /\ ModeDigit(prev, Destination(OpcodeAt(prev))) = 1
     /\ \A j \in 0..(Destination(OpcodeAt(prev)) - 1) : Readable(prev, j)
     /\ OpcodeAt(prev) = 3 => InputAvailable(prev))
    => (result.kind = "InvalidInstruction" /\ memory = prev.memory)

\* an input instruction with an immediate destination took a step with a
\* value waiting in the queue
C6_Witness ==
    /\ Stepped({3})
    /\ ModeDigit(prev, 0) = 1
    /\ ~prev.constant_input.some /\ prev.input # <<>>
    /\ result.kind = "InvalidInstruction"

(* C7: when the step resolves a parameter in position mode that is        *)
(* negative, or one in relative mode whose sum with relative_base is      *)
(* negative, as an operand it reads or as its write target, the step      *)
(* fails with InvalidAddress carrying that negative address and memory is *)
(* as it was.                                                             *)
C7_NegativeAddressFails ==
    \A i \in 0..2 :
       (Stepped(1..9) /\ Resolved(prev, i) /\ NegativeAddress(prev, i))
       => (/\ result = Err("InvalidAddress", TargetAddress(prev, i))
           /\ memory = prev.memory)

\* a relative-mode parameter that is not negative itself named a negative
\* address
C7_Witness ==
    /\ Stepped(1..9)
    /\ \E i \in 0..2 :
          /\ Resolved(prev, i) /\ ModeDigit(prev, i) = 2
          /\ Param(prev, i) >= 0 /\ Param(prev, i) + prev.relative_base < 0
    /\ result.kind = "InvalidAddress" /\ result.val < 0

(* C8: an input instruction met with an empty queue and no constant      *)
(* input fails with NoInput and leaves the machine (memory, pc, both      *)
(* queues) as it was; NoInput is returned in no other case; and after     *)
(* push_input(v) a step no longer fails with NoInput: an instruction      *)
(* whose destination can be written stores v, advances pc by 2 and        *)
(* returns success.                                                       *)
C8_NoInputIsRetryable ==
    /\ (Stepped({3}) /\ ~InputAvailable(prev)) => result = Err("NoInput", 0)
    /\ (lastOp = "step" /\ result.kind = "NoInput") =>
          /\ Stepped({3}) /\ ~InputAvailable(prev)
          /\ Machine = prev
          /\ \A v \in InputValues :
                LET pushedv == [Machine EXCEPT !.input = Append(@, v)]
                    address == TargetAddress(Machine, 0)
                IN /\ step(pushedv).res.kind # "NoInput"
                   /\ Writable(Machine, 0) =>
                         /\ step(pushedv).res = Ok
                         /\ step(pushedv).m.pc = pc + 2
                         /\ step(pushedv).m.input = <<>>
                         /\ get_data(step(pushedv).m.memory, address) = v

\* the queue ran dry at an input instruction whose destination can be
\* written
C8_Witness ==
    /\ lastOp = "step" /\ result.kind = "NoInput"
    /\ pushed # <<>>
    /\ Writable(Machine, 0)

(* C9: the constant input, once set, is never removed and changes only in *)
(* set_contant_input, to the value passed; with it set a step of an input *)
(* instruction never fails with NoInput and leaves the input queue as it  *)
(* was, empty or not, and an instruction whose destination can be written *)
(* stores the constant there and returns success.                         *)
C9_ConstantInputOverrides ==
    /\ prev.constant_input.some => constant_input.some
    /\ constant_input # prev.constant_input => lastOp = "set_contant_input"
    /\ lastOp = "set_contant_input" => constant_input = Some(lastArgs[1])
    /\ (Stepped({3}) /\ prev.constant_input.some) =>
          /\ result.kind # "NoInput"
          /\ input = prev.input
          /\ Writable(prev, 0) =>
                /\ result = Ok
                /\ get_data(memory, TargetAddress(prev, 0))
                      = prev.constant_input.v

\* an input instruction stored the constant while a value waited in the
\* queue
C9_Witness ==
    /\ Stepped({3}) /\ prev.constant_input.some
    /\ prev.input # <<>>
    /\ result = Ok
    /\ get_data(memory, TargetAddress(prev, 0)) \notin InputValues

(* C10: with no constant input set, the values the successful input       *)
(* instructions store are, in order, the values passed to push_input: the *)
(* k-th stores the k-th, and no value is stored twice.                    *)
C10_InputIsFifo ==
    ~constant_input.some => IsPrefix(stored, pushed)

\* two different values were pushed and stored by two input instructions
C10_Witness ==
    /\ ~constant_input.some
    /\ Len(stored) = 2 /\ stored[1] # stored[2]
    /\ stored = pushed

(* C12: a jump (opcode 5 with a first operand other than 0, opcode 6 with *)
(* a first operand of 0) sets pc to its second operand; a jump that is    *)
(* not taken advances pc by 3; a jump taken to a negative target fails    *)
(* with InvalidArgument carrying the target and leaves pc where it was;   *)
(* and a jump instruction, taken or not, failing or not, changes nothing  *)
(* of the machine but pc.                                                 *)
C12_Jump ==
    Stepped({5, 6}) =>
        /\ [Machine EXCEPT !.pc = prev.pc] = prev
        /\ Readable(prev, 0) =>
             IF Taken(OpcodeAt(prev), OperandValue(prev, 0))
             THEN Readable(prev, 1) =>
                    IF OperandValue(prev, 1) >= 0
                    THEN result = Ok /\ pc = OperandValue(prev, 1)
                    ELSE /\ result = Err("InvalidArgument", OperandValue(prev, 1))
                         /\ pc = prev.pc
             ELSE result = Ok /\ pc = prev.pc + 3

\* a jump was taken to a negative target read from memory
C12_Witness ==
    /\ Stepped({5, 6})
    /\ result.kind = "InvalidArgument" /\ result.val < 0
    /\ ModeDigit(prev, 1) = 2 /\ prev.relative_base # 0
    /\ pc = prev.pc

(* C13: a successful step advances pc by 4 for opcodes 1, 2, 7 and 8 and  *)
(* by 2 for opcodes 3, 4 and 9; the halt instruction 99 leaves pc where   *)
(* it was; and a step that fails leaves pc where it was.                  *)
C13_PcAdvance ==
    lastOp = "step" =>
        /\ (Stepped({1, 2, 7, 8}) /\ result = Ok) => pc = prev.pc + 4
        /\ (Stepped({3, 4, 9}) /\ result = Ok) => pc = prev.pc + 2
        /\ Stepped({99}) => (result = Ok /\ pc = prev.pc)
        /\ Failed => pc = prev.pc

\* an instruction of four words was executed from a pc other than 0
C13_Witness ==
    /\ Stepped({1, 2, 7, 8}) /\ result = Ok
    /\ prev.pc > 0
    /\ pc = prev.pc + 4

\* the address a parameter in mode 0 or 2 names, with relative_base as it
\* is before the step
ModeAddress(m, i) ==
    IF ModeDigit(m, i) = 2 THEN Param(m, i) + m.relative_base ELSE Param(m, i)

\* the value a parameter names as an operand: itself in mode 1, else the
\* cell at its address, 0 beyond the end of memory
ModeValue(m, i) ==
    IF ModeDigit(m, i) = 1 THEN Param(m, i)
    ELSE IF ModeAddress(m, i) < Len(m.memory)
         THEN m.memory[ModeAddress(m, i) + 1]
         ELSE 0

\* memory mem after a write of v to address a
Written(mem, a, v) ==
    [i \in 1..(IF a + 1 > Len(mem) THEN a + 1 ELSE Len(mem)) |->
        IF i = a + 1 THEN v ELSE IF i <= Len(mem) THEN mem[i] ELSE 0]

(* C14: in a successful step, a parameter p in mode 2 read as an operand  *)
(* is the value at address p + relative_base (0 beyond the end of        *)
(* memory) and written as a target is address p + relative_base, with    *)
(* relative_base as it was when the step began; in mode 0 the address is  *)
(* p; in mode 1 the operand is p itself.  The operands are seen in what   *)
(* the instruction does with them: the value emitted, the amount added to *)
(* relative_base, the jump target, the value and the cell written.        *)
C14_AddressingModes ==
    (lastOp = "step" /\ ~prev.halted /\ result = Ok) =>
        LET op == OpcodeAt(prev)
        IN /\ op = 4 => output = Append(prev.output, ModeValue(prev, 0))
           /\ op = 9 =>
                relative_base = prev.relative_base + ModeValue(prev, 0)
           /\ (op \in {5, 6} /\ Taken(op, ModeValue(prev, 0))) =>
                pc = ModeValue(prev, 1)
           /\ (op \in {5, 6} /\ ~Taken(op, ModeValue(prev, 0))) =>
                pc = prev.pc + 3
           /\ op \in {1, 2, 7, 8} =>
                memory = Written(prev.memory, ModeAddress(prev, 2),
                                 closure(op, ModeValue(prev, 0),
                                         ModeValue(prev, 1)))
           /\ op = 3 =>
                memory = Written(prev.memory, ModeAddress(prev, 0),
                                 IF prev.constant_input.some
                                 THEN prev.constant_input.v
                                 ELSE Head(prev.input))

\* with relative_base moved off 0, an instruction read an operand and
\* wrote its result through mode 2
C14_Witness ==
    /\ Stepped({1, 2, 7, 8}) /\ result = Ok
    /\ prev.relative_base # 0
    /\ ModeDigit(prev, 0) = 2 /\ ModeDigit(prev, 2) = 2
    /\ ModeAddress(prev, 2) # ModeAddress(prev, 0)

(* C15: relative_base is 0 after construction; a successful step of       *)
(* opcode 9 adds the instruction's operand to it; a step of any other     *)
(* instruction, a step that fails, and the caller's push_input,           *)
(* set_contant_input, pop_output, get_output and set_data leave it as it  *)
(* was.  (run and next_output are sequences of such steps.)               *)
C15_RelativeBaseFrame ==
    /\ lastOp = "new" => relative_base = 0
    /\ lastOp = "step" =>
         IF Stepped({9}) /\ result = Ok
         THEN relative_base = prev.relative_base + OperandValue(prev, 0)
         ELSE relative_base = prev.relative_base
    /\ lastOp \in {"push_input", "set_contant_input", "pop_output",
                   "get_output", "set_data"} =>
         relative_base = prev.relative_base

\* relative_base was moved a second time
C15_Witness ==
    /\ Stepped({9}) /\ result = Ok
    /\ prev.relative_base # 0
    /\ relative_base # prev.relative_base

\* memory after is memory before with a write to address a at or beyond
\* its end: long enough, zero between the old end and a, the old cells as
\* they were
GrownBy(before, after, a) ==
    /\ Len(after) >= a + 1
    /\ \A i \in Len(before)..(a - 1) : after[i + 1] = 0
    /\ \A i \in 0..(Len(before) - 1) : after[i + 1] = before[i + 1]

(* C16: a read of an address at or beyond the end of memory gives 0 and   *)
(* leaves memory as it was; a write of v to such an address a makes       *)
(* memory at least a + 1 long, stores v at a, leaves the addresses        *)
(* between the old end and a reading 0 and every cell that existed as it  *)
(* was.  The write is a caller's set_data or an instruction's result.     *)
C16_BeyondTheEnd ==
    /\ \A a \in Len(memory)..(MaxMem + 2) : get_data(memory, a) = 0
    /\ (Stepped({4}) /\ result = Ok /\ ModeDigit(prev, 0) # 1
           /\ ModeAddress(prev, 0) >= Len(prev.memory)) =>
         (output = Append(prev.output, 0) /\ memory = prev.memory)
    /\ (lastOp = "set_data" /\ lastArgs[1] >= Len(prev.memory)) =>
         /\ GrownBy(prev.memory, memory, lastArgs[1])
         /\ memory[lastArgs[1] + 1] = lastArgs[2]
    /\ (Stepped({1, 2, 7, 8}) /\ result = Ok
           /\ ModeAddress(prev, 2) >= Len(prev.memory)) =>
         /\ GrownBy(prev.memory, memory, ModeAddress(prev, 2))
         /\ memory[ModeAddress(prev, 2) + 1] =
               closure(OpcodeAt(prev), ModeValue(prev, 0), ModeValue(prev, 1))
    /\ (Stepped({3}) /\ result = Ok
           /\ ModeAddress(prev, 0) >= Len(prev.memory)) =>
         /\ GrownBy(prev.memory, memory, ModeAddress(prev, 0))
         /\ memory[ModeAddress(prev, 0) + 1] =
               IF prev.constant_input.some THEN prev.constant_input.v
               ELSE Head(prev.input)

\* a value other than 0 was stored past the end of a memory that was not
\* empty, leaving a gap between the old end and the cell stored
C16_Witness ==
    /\ lastOp = "set_data"
    /\ prev.memory # <<>>
    /\ lastArgs[1] > Len(prev.memory)
    /\ lastArgs[2] # 0

(* C17: memory never gets shorter, whatever the operation (a step, a run  *)
(* of steps, set_data); and an operation that only reads memory (an       *)
(* instruction without a target, a step that fails, a queue operation)    *)
(* leaves its length as it was.                                           *)
C17_MemoryNeverShrinks ==
    /\ Len(memory) >= Len(prev.memory)
    /\ (lastOp = "step" /\ (Failed \/ Stepped({4, 5, 6, 9, 99}))) =>
         Len(memory) = Len(prev.memory)
    /\ lastOp \in {"push_input", "set_contant_input", "pop_output",
                   "get_output"} =>
         Len(memory) = Len(prev.memory)

\* a memory that had grown was made to grow again by a step
C17_Witness ==
    /\ lastOp = "step"
    /\ Len(prev.memory) > Len(program)
    /\ Len(memory) > Len(prev.memory)

(* C18: a step that decodes an instruction word whose two low decimal     *)
(* digits select no operation (they are not 1..9 or 99) fails with        *)
(* InvalidInstruction carrying the word's remainder by 100 (the           *)
(* remainder has the sign of the word, as the code's % has), and changes  *)
(* nothing of the machine.                                                *)
C18_UnknownOpcode ==
    (lastOp = "step" /\ ~prev.halted
        /\ OpcodeAt(prev) \notin (1..9) \cup {99}) =>
        /\ result = Err("InvalidInstruction", Rem(WordAt(prev), 100))
        /\ Machine = prev

\* the word had digits above its two low ones, and an input was waiting
C18_Witness ==
    /\ lastOp = "step" /\ ~prev.halted
    /\ WordAt(prev) >= 100
    /\ WordAt(prev) % 100 \notin (1..9) \cup {99}
    /\ prev.input # <<>>

\* the machine after k calls of step in a row
RECURSIVE Iter(_, _)
Iter(m, k) == IF k = 0 THEN m ELSE step(Iter(m, k - 1)).m

(* C19: run steps the machine until it is halted.  A run that returns     *)
(* success leaves the machine halted; a run that returns an error comes   *)
(* after some number of successful steps and one failing step, returns    *)
(* the error of that step, and leaves the machine as that step left it:   *)
(* no step is taken after the failing one.                                *)
C19_RunToHalt ==
    lastOp = "run" =>
        /\ result = Ok \/ IsErr(result)
        /\ result = Ok => halted
        /\ \E k \in 0..MaxRunSteps :
              /\ \A j \in 0..(k - 1) :
                    ~Iter(prev, j).halted /\ step(Iter(prev, j)).res = Ok
              /\ IF Iter(prev, k).halted
                 THEN result = Ok /\ Machine = Iter(prev, k)
                 ELSE /\ IsErr(step(Iter(prev, k)).res)
                      /\ result = step(Iter(prev, k)).res
                      /\ Machine = step(Iter(prev, k)).m

\* a run emitted a value and then failed for want of input, the machine
\* left at the input instruction and not halted
C19_Witness ==
    /\ lastOp = "run"
    /\ result = Err("NoInput", 0)
    /\ ~halted
    /\ Len(output) > Len(prev.output)
    /\ OpcodeAt(Machine) = 3

\* the arcade before the last operation, and after k calls of its step
PrevArcade == [machine |-> prev, screen |-> prevScreen]

RECURSIVE ArcadeIter(_, _)
ArcadeIter(a, k) == IF k = 0 THEN a ELSE Arcade_step(ArcadeIter(a, k - 1)).a

(* C20: run_until tries its predicate before each step.  When the         *)
(* predicate holds as run_until is called, no step is taken and machine   *)
(* and screen are as they were; otherwise the arcade is stepped until the *)
(* predicate holds for the first time, and the call returns success with  *)
(* the arcade as the last of these steps left it; a step that fails ends  *)
(* the call with its error.  (Predicates are functions of the arcade's    *)
(* state, as every predicate the source passes is.)                       *)
C20_RunUntil ==
    lastOp = "run_until" =>
        LET f == lastArgs[1]
        IN /\ Holds(f, PrevArcade) => (result = Ok /\ Arcade = PrevArcade)
           /\ result = Ok => Holds(f, Arcade)
           /\ \E k \in 0..MaxUntilSteps :
                 /\ \A j \in 0..(k - 1) :
                       /\ ~Holds(f, ArcadeIter(PrevArcade, j))
                       /\ Arcade_step(ArcadeIter(PrevArcade, j)).res = Ok
                 /\ IF Holds(f, ArcadeIter(PrevArcade, k))
                    THEN result = Ok /\ Arcade = ArcadeIter(PrevArcade, k)
                    ELSE LET s == Arcade_step(ArcadeIter(PrevArcade, k))
                         IN /\ IsArcadeErr(s.res)
                            /\ result = s.res
                            /\ Arcade = s.a

\* waiting for a ball took two steps, the first of which drew a block
C20_Witness ==
    /\ lastOp = "run_until" /\ lastArgs = <<"wait_frame">>
    /\ result = Ok
    /\ prevScreen.num_blocks = 0 /\ screen.num_blocks = 1
    /\ is_frame(screen.last_instruction)

(* C21: a machine made from a program has the program's integers as its   *)
(* memory, pc = 0, relative_base = 0, halted = false, empty input and     *)
(* output queues and no constant input.                                   *)
C21_Construction ==
    lastOp = "new" =>
        /\ memory = program
        /\ pc = 0
        /\ relative_base = 0
        /\ halted = FALSE
        /\ input = <<>> /\ output = <<>>
        /\ constant_input.some = FALSE

\* a machine was made from a program of several integers
C21_Witness ==
    /\ lastOp = "new"
    /\ Len(program) > 1
    /\ memory = program

\* the last operation was a run of the program from its start
RanFromStart ==
    /\ lastOp = "run"
    /\ prev.memory = program /\ prev.pc = 0 /\ ~prev.halted
    /\ prev.output = <<>> /\ prev.relative_base = 0

(* C22: the program 109,1,204,-1,1001,100,1,100,1008,100,16,101,1006,     *)
(* 101,0,99, run to its end, succeeds and leaves in the output queue the  *)
(* program's own 16 integers in order; it reads no input.                 *)
C22_Quine ==
    program = Quine =>
        /\ RanFromStart => (result = Ok /\ halted /\ output = program)
        /\ halted => output = program
        /\ input = pushed

\* the program was run from its start, with no input pushed
C22_Witness ==
    /\ program = Quine /\ RanFromStart
    /\ pushed = <<>>
    /\ Len(output) = 16 /\ output = Quine

(* C23: the program 3,9,8,9,10,9,4,9,99,-1,8, run to its end with an      *)
(* input pushed, emits just 1 when the input is 8 and just 0 when it is 7. *)
C23_EqualsEight ==
    program = EqualsEight =>
        /\ (RanFromStart /\ prev.input # <<>>) => (result = Ok /\ halted)
        /\ halted => output = <<IF pushed[1] = 8 THEN 1 ELSE 0>>

\* the program was run from its start with the input 7
C23_Witness ==
    /\ program = EqualsEight /\ RanFromStart
    /\ pushed = <<7>>
    /\ output = <<0>>

(* C24: the program 1002,4,3,4,33, run to its end, succeeds and leaves    *)
(* 99 at position 4: 33 times the immediate operand 3, written where the  *)
(* next instruction is fetched, and executed as the halt instruction.     *)
C24_MultiplyImmediate ==
    program = MultiplyImmediate =>
        /\ RanFromStart => (result = Ok /\ halted)
        /\ halted => (memory = <<1002, 4, 3, 4, 99>> /\ pc = 4)
        /\ pc \in {0, 4}

\* the program was run from its start
C24_Witness ==
    /\ program = MultiplyImmediate /\ RanFromStart
    /\ halted /\ get_data(memory, 4) = 99

(* C25: the program 1,9,10,3,2,3,11,0,99,30,40,50, run to its end,        *)
(* succeeds and leaves 3500 at position 0.                                *)
C25_AddMultiply ==
    program = AddMultiply =>
        /\ RanFromStart => (result = Ok /\ halted)
        /\ halted => get_data(memory, 0) = 3500

\* the program was run from its start
C25_Witness ==
    /\ program = AddMultiply /\ RanFromStart
    /\ halted /\ get_data(memory, 0) = 3500

(* C26: a call of next_output takes steps until one of them appends a     *)
(* value to the output queue and returns that value, the one just         *)
(* appended; it returns Halted only when the machine halts with no output *)
(* there to return.  This is claimed for every state the call is made in, *)
(* an output queue that already holds values included.                    *)
C26_NextOutputReturnsNew ==
    lastOp = "next_output" =>
        /\ result.kind = "Some" =>
             \E k \in 1..MaxRunSteps :
                /\ \A j \in 0..(k - 1) :
                      ~Iter(prev, j).halted /\ step(Iter(prev, j)).res = Ok
                /\ \A j \in 1..(k - 1) :
                      Iter(prev, j).output = Iter(prev, j - 1).output
                /\ Iter(prev, k).output =
                      Append(Iter(prev, k - 1).output, result.val)
        /\ result.kind = "Halted" => output = <<>>

\* every cell but the one at address a reads the same in both memories
SameBut(before, after, a) ==
    \A i \in 0..(Len(before) + Len(after)) :
       i # a => get_data(after, i) = get_data(before, i)

(* C28: a successful step touches only what its opcode names.  Opcodes 1, *)
(* 2, 7 and 8 change no cell but the destination and no queue; opcode 3   *)
(* changes no cell but the destination and takes just the front off the   *)
(* input queue, or leaves the queue alone when a constant input is set;   *)
(* opcode 4 appends one value to the output queue and changes no cell;    *)
(* opcodes 5, 6, 9 and 99 change neither memory nor a queue.  No step,    *)
(* failing or not, makes the output queue shorter.                        *)
C28_StepFrame ==
    lastOp = "step" =>
        /\ IsPrefix(prev.output, output)
        /\ (Stepped({1, 2, 7, 8}) /\ result = Ok) =>
             /\ SameBut(prev.memory, memory, ModeAddress(prev, 2))
             /\ input = prev.input /\ output = prev.output
        /\ (Stepped({3}) /\ result = Ok) =>
             /\ SameBut(prev.memory, memory, ModeAddress(prev, 0))
             /\ input = IF prev.constant_input.some THEN prev.input
                        ELSE Tail(prev.input)
             /\ output = prev.output
        /\ (Stepped({4}) /\ result = Ok) =>
             /\ Len(output) = Len(prev.output) + 1
             /\ memory = prev.memory /\ input = prev.input
        /\ (Stepped({5, 6, 9, 99}) /\ result = Ok) =>
             /\ memory = prev.memory
             /\ input = prev.input /\ output = prev.output

\* a value was emitted behind one that was waiting in the output queue
C28_Witness ==
    /\ Stepped({4}) /\ result = Ok
    /\ prev.output # <<>>
    /\ Len(output) = Len(prev.output) + 1
    /\ prev.input # <<>>

(* C30: run on a machine that is already halted returns success, takes no *)
(* step and leaves the whole machine as it was; step and next_output      *)
(* return Halted in that state.                                           *)
C30_RunOnHalted ==
    prev.halted =>
        /\ lastOp = "run" => (result = Ok /\ Machine = prev)
        /\ lastOp \in {"step", "next_output"} =>
              (result = Err("Halted", 0) /\ Machine = prev)

\* run was called on a halted machine with output waiting and the
\* instruction at pc patched to something other than a halt
C30_Witness ==
    /\ lastOp = "run" /\ prev.halted
    /\ result = Ok
    /\ OpcodeAt(prev) # 99
    /\ prev.output # <<>>

(* C29: the machine does what the day-2 machine does.  For a program the  *)
(* day-2 machine runs to its halt without an error, the machine runs to   *)
(* its halt without an error too and ends with the same memory; and as    *)
(* long as the day-2 machine has not failed the two agree call by call on *)
(* memory, pc and halted.                                                 *)
C29_Day2Refinement ==
    /\ (lastOp = "run" /\ day2_result = Ok) =>
          (result = Ok /\ halted /\ day2.halted /\ memory = day2.memory)
    /\ (lastOp = "step" /\ day2_result = Ok) =>
          /\ result = Ok
          /\ memory = day2.memory /\ pc = day2.pc /\ halted = day2.halted

\* both machines ran a program of two instructions from its start to its
\* halt
C29_Witness ==
    /\ lastOp = "run" /\ day2_result = Ok
    /\ prev.memory = program /\ prev.pc = 0
    /\ day2.halted /\ day2.pc = 8
    /\ day2.memory # program
    /\ memory = day2.memory

(* C27: add and multiply store the exact sum and product of their two     *)
(* operands for every pair of i64 operands, the adjustment of             *)
(* relative_base and the relative address are exact sums, and a step ends *)
(* in success or in one of the declared errors, never otherwise.  The     *)
(* relative address is seen in a relative read of opcode 4: below zero it *)
(* is the address of the InvalidAddress error, else the cell emitted.     *)
C27_ExactArithmetic ==
    (lastOp = "step" /\ ~prev.halted) =>
        LET op == OpcodeAt(prev)
            exact == Param(prev, 0) + prev.relative_base
        IN /\ result.kind \in {"Ok"} \cup ErrorKinds
           /\ (result = Ok /\ op = 1) =>
                memory = Written(prev.memory, ModeAddress(prev, 2),
                                 ModeValue(prev, 0) + ModeValue(prev, 1))
           /\ (result = Ok /\ op = 2) =>
                /\ MulFits(ModeValue(prev, 0), ModeValue(prev, 1))
                /\ memory = Written(prev.memory, ModeAddress(prev, 2),
                                    ModeValue(prev, 0) * ModeValue(prev, 1))
           /\ (result = Ok /\ op = 9) =>
                relative_base = prev.relative_base + ModeValue(prev, 0)
           /\ (op = 4 /\ ModeDigit(prev, 0) = 2 /\ result.kind # "Panic") =>
                IF exact < 0 THEN result = Err("InvalidAddress", exact)
                ELSE /\ result = Ok
                     /\ output = Append(prev.output,
                                        get_data(prev.memory, exact))


(* C31: a step taken with pc at or beyond the end of memory reads the     *)
(* instruction word as 0 and fails with InvalidInstruction(0); memory,    *)
(* its length included, and every other field of the machine are as they  *)
(* were.                                                                  *)
C31_PcBeyondEnd ==
    (lastOp = "step" /\ ~prev.halted /\ prev.pc >= Len(prev.memory)) =>
        /\ result = Err("InvalidInstruction", 0)
        /\ Machine = prev

\* a step was taken after a jump to a target beyond the end of memory
C31_Witness ==
    /\ lastOp = "step" /\ ~prev.halted
    /\ prev.pc > Len(prev.memory)
    /\ prev.memory # <<>>
    /\ result = Err("InvalidInstruction", 0)


\* the framebuffer positions of a screen whose tile is Block
Blocks(scr) == { k \in DOMAIN scr.framebuffer : scr.framebuffer[k] = "Block" }

(* C33: after any instructions given through run_instruction to a screen  *)
(* that began empty, num_blocks is the number of framebuffer positions    *)
(* whose tile is Block, so that it is 0 exactly when no Block is left,    *)
(* and it never goes below 0.                                             *)
C33_NumBlocks ==
    /\ screen.num_blocks >= 0
    /\ screen.num_blocks = Cardinality(Blocks(screen))


(* C32: when the robot's program halts after it has emitted only whole    *)
(* pairs of a colour and a direction, next_instruction returns Ok(None),  *)
(* the loop of paint_hull ends and paint_hull returns success.  The halt  *)
(* after whole pairs is the halt met before the first output of a turn.   *)
C32_HaltEndsPainting ==
    (lastOp \in {"paint_turn", "paint_hull"} /\ halted /\ received = 0) =>
        result = Ok


\* run_circuit has returned Ok(signal)
Returned == lastOp = "run_amplifier" /\ result.kind = "Some"

\* the value an Option holds, 0 for None
OrZero(o) == IF o.some THEN o.v ELSE 0

(* C34 as claimed: run_circuit returns the last value the fifth amplifier *)
(* emitted; every amplifier is given the output of the amplifier before   *)
(* it, the first 0 in the first round and the fifth's output after;       *)
(* without loopback there is one round; with loopback a further round     *)
(* begins only after a round in which no amplifier was found halted.      *)
C34_ReturnsFifthOutput ==
    /\ Returned =>
          amp_out.last[5].some /\ result.val = amp_out.last[5].v
    /\ (lastOp = "run_amplifier" /\ amp_out.at > 0) =>
          amp_out.last[amp_out.at].some
            /\ amp_out.fed = amp_out.last[amp_out.at].v

(* C34 amended: run_circuit returns the signal as the last round left it, *)
(* which is the value emitted last by any amplifier and 0 when none       *)
(* emitted, and is the fifth amplifier's last output whenever the fifth   *)
(* emitted in the last round.  Every call of run_amplifier is given the   *)
(* signal as it then is: the value emitted last before the call, 0 when   *)
(* there is none.  The amplifiers are run in the order 0..4.  Without     *)
(* loopback the call returns after one round; with loopback it returns at *)
(* the end of the first round in which an amplifier was found halted and  *)
(* begins a further round only after a round in which every amplifier     *)
(* emitted.                                                               *)
C34_RunCircuit ==
    /\ Returned =>
          /\ result.val = OrZero(amp_out.latest)
          /\ amp_out.round[5] => result.val = amp_out.last[5].v
          /\ amp_out.at = 4
          /\ ~lastArgs[2] => amp_out.rounds = 1
          /\ lastArgs[2] => \E k \in 1..5 : ~amp_out.round[k]
    /\ lastOp = "run_amplifier" =>
          /\ amp_out.fed = OrZero(amp_out.was)
          /\ (result = Running /\ amp_out.at = 4) =>
                lastArgs[2] /\ \A k \in 1..5 : amp_out.round[k]
          /\ result = Running => circuit.i = (amp_out.at + 1) % 5

\* with loopback, run_circuit returned after a second round in which the
\* fifth amplifier was found halted and the fourth had emitted
C34_Witness ==
    /\ Returned /\ lastArgs[2]
    /\ amp_out.rounds = 2
    /\ amp_out.round[4] /\ ~amp_out.round[5]
    /\ amp_out.last[5].some
    /\ result.val # amp_out.last[5].v

====
